---- MODULE Spec2Model ----
(***************************************************************************)
(* Model of the market regime and anomaly engine of macro-news             *)
(* (src/analyzers/market_analysis.py, class MarketAnalyzer).               *)
(*                                                                         *)
(* Python dictionaries that the code iterates over (the snapshot and its   *)
(* asset classes) are sequences of [k |-> key, v |-> value] pairs in       *)
(* insertion order.  Dictionaries the code only looks keys up in (one      *)
(* asset's entry, the bond rates) are records: a key is present iff it is  *)
(* in the record's DOMAIN.  A value that is a bare number where the code   *)
(* expects a mapping is the record [scalar |-> n].  Prices, changes and    *)
(* volumes are integers; an average is compared through its sum, so no     *)
(* comparison is rounded.                                                  *)
(***************************************************************************)
EXTENDS Integers, Sequences, FiniteSets, TLC

VARIABLES
    lookback_days,      \* MarketAnalyzer.lookback_days
    historical_data,    \* MarketAnalyzer.historical_data: key -> list of prices
    appended,           \* history: per key, every price ever appended, in order
    op,                 \* the method that ran last
    arg,                \* the argument that method was called with
    raised,             \* whether that call raised
    out,                \* what that call returned
    prev,               \* the call before it, when that was _determine_market_regime
    pc,                 \* MarketMonitor.run: the call the loop is about to make
    now,                \* the clock: seconds since Monday 00:00 in New York
    last_updates,       \* MarketMonitor.last_updates: data type -> time
    iteration,          \* history: how many times the loop body was entered again
    event,              \* history: what the last step of the loop did
    recorded_start,     \* history: per data type, when the last recorded collection started
    daily_events,       \* MarketMonitor.daily_events: the items queued for the newsletter
    stored,             \* the rows the DatabaseManager has committed, in order
    sent,               \* history: the newsletters the EmailNotifier has sent
    outcomes,           \* history: per call of the loop body, what its latest run did
    last_collection_time,   \* BaseCollector.last_collection_time
    collection_errors       \* BaseCollector.collection_errors

serviceVars ==
    <<daily_events, stored, sent, outcomes, last_collection_time, collection_errors>>

monitorVars == <<pc, now, last_updates, iteration, event, recorded_start, serviceVars>>

vars == <<lookback_days, historical_data, appended, op, arg, raised, out, prev,
          pc, now, last_updates, iteration, event, recorded_start,
          daily_events, stored, sent, outcomes, last_collection_time,
          collection_errors>>

\* MarketMonitor.__init__ and BaseCollector.__init__: nothing queued, stored,
\* sent or collected yet
NoEvents ==
    [market_events |-> <<>>, economic_releases |-> <<>>,
     fed_communications |-> <<>>, system_events |-> <<>>]

ServicesNotStarted ==
    /\ daily_events = NoEvents
    /\ stored = <<>>
    /\ sent = <<>>
    /\ outcomes = <<>>
    /\ last_collection_time = [none |-> TRUE]
    /\ collection_errors = <<>>

\* the monitor of a specification that exercises the analyzer alone
MonitorNotStarted ==
    /\ pc = "not_started"
    /\ now = 0
    /\ last_updates = [k \in {} |-> 0]
    /\ iteration = 0
    /\ event = [name |-> "none"]
    /\ recorded_start = [k \in {} |-> 0]
    /\ ServicesNotStarted

(***************************************************************************)
(* Bounds of the model.                                                    *)
(***************************************************************************)
MaxLookback == 3
MaxPrice == 2
MaxAppends == 4

(***************************************************************************)
(* Python helpers.                                                         *)
(***************************************************************************)
\* {} : a dictionary without keys
EmptyDict == [k \in {} |-> <<>>]

\* d.get(key, default) on a record
Get(d, key, default) == IF key \in DOMAIN d THEN d[key] ELSE default

\* the value stored under key in an ordered dictionary that has the key
Lookup(d, key) == d[CHOOSE i \in 1..Len(d) : d[i].k = key].v

HasKey(d, key) == \E i \in 1..Len(d) : d[i].k = key

\* isinstance(e, dict) for the value of one asset
IsMapping(e) == "scalar" \notin DOMAIN e

\* lst[:n] instead of lst[-n:]: the newest items are dropped
PySliceLast_keepOldest(lst, n) ==
    IF Len(lst) <= n THEN lst ELSE SubSeq(lst, 1, n)

\* lst[-n:]  (n = 0 gives lst[0:], the whole list; a negative n drops -n items)
PySliceLast(lst, n) ==
    IF n = 0 THEN lst
    ELSE IF n > 0
         THEN IF Len(lst) <= n THEN lst ELSE SubSeq(lst, Len(lst) - n + 1, Len(lst))
         ELSE SubSeq(lst, (0 - n) + 1, Len(lst))

RECURSIVE SumSeq(_)
SumSeq(s) == IF s = <<>> THEN 0 ELSE s[1] + SumSeq(Tail(s))

RECURSIVE Flatten(_)
\* the (asset, entry) pairs in the order the nested loops visit them
Flatten(d) == IF d = <<>> THEN <<>> ELSE d[1].v \o Flatten(Tail(d))

(***************************************************************************)
(* MarketAnalyzer._update_historical_data                                  *)
(***************************************************************************)
RECURSIVE UpdateFrom(_, _, _, _, _)
UpdateFrom(h, log, items, i, L) ==
    IF i > Len(items)
    THEN [h |-> h, log |-> log, raised |-> FALSE]
    ELSE LET asset == items[i].k
             price_data == items[i].v
             h1 == IF asset \in DOMAIN h THEN h ELSE (asset :> <<>>) @@ h
             log1 == IF asset \in DOMAIN log THEN log ELSE (asset :> <<>>) @@ log
         IN  IF ~IsMapping(price_data) \/ "price" \notin DOMAIN price_data
             THEN [h |-> h1, log |-> log1, raised |-> TRUE]
             ELSE UpdateFrom(
                    [h1 EXCEPT ![asset] = PySliceLast(Append(h1[asset], price_data.price), L)],
                    [log1 EXCEPT ![asset] = Append(log1[asset], price_data.price)],
                    items, i + 1, L)

_update_historical_data(h, log, new_data, L) == UpdateFrom(h, log, Flatten(new_data), 1, L)

(***************************************************************************)
(* Snapshots handed to the update step.                                    *)
(***************************************************************************)
StoreAssets == {"US10Y", "US2Y"}

PricePoint(sym, p) == [symbol |-> sym, price |-> p]

UpdateEntries ==
    {PricePoint("^TNX", p) : p \in 1..MaxPrice} \cup {[symbol |-> "^TNX"], [scalar |-> 1]}

UpdateSnapshots ==
    {<< [k |-> "rates", v |-> << [k |-> a, v |-> e] >>] >> :
        a \in StoreAssets, e \in UpdateEntries}
    \cup
    {<< [k |-> "rates", v |-> << [k |-> "US10Y", v |-> e1], [k |-> "US2Y", v |-> e2] >>] >> :
        e1 \in UpdateEntries, e2 \in UpdateEntries}
    \cup
    {<< [k |-> "rates", v |-> << [k |-> "US10Y", v |-> PricePoint("^TNX", p1)] >>],
        [k |-> "credit", v |-> << [k |-> "US10Y", v |-> PricePoint("^TNX", p2)] >>] >> :
        p1 \in 1..MaxPrice, p2 \in 1..MaxPrice}

\* the appends one snapshot can cause
AppendsOf(s) == Len(Flatten(s))

RECURSIVE SumLen(_, _)
SumLen(f, keys) ==
    IF keys = {} THEN 0
    ELSE LET a == CHOOSE x \in keys : TRUE
         IN  Len(f[a]) + SumLen(f, keys \ {a})

\* how many prices the update step has appended so far
TotalAppended == SumLen(appended, DOMAIN appended)

\* what the next call will see as the call before it
Previous ==
    IF op = "regime" THEN [op |-> "regime", arg |-> arg, out |-> out]
    ELSE [op |-> "none"]

(***************************************************************************)
(* MarketAnalyzer.__init__ and the update step as a state machine.         *)
(***************************************************************************)
InitStore ==
    /\ lookback_days \in 0..MaxLookback
    /\ historical_data = EmptyDict
    /\ appended = EmptyDict
    /\ op = "init"
    /\ arg = <<>>
    /\ raised = FALSE
    /\ out = [none |-> TRUE]
    /\ prev = [op |-> "none"]
    /\ MonitorNotStarted

Update(snapshots, maxAppends) ==
    \E s \in snapshots :
        /\ TotalAppended + AppendsOf(s) <= maxAppends
        /\ LET r == _update_historical_data(historical_data, appended, s, lookback_days)
           IN  /\ historical_data' = r.h
               /\ appended' = r.log
               /\ raised' = r.raised
        /\ op' = "update"
        /\ arg' = s
        /\ out' = [none |-> TRUE]
        /\ prev' = Previous
        /\ UNCHANGED monitorVars
        /\ UNCHANGED lookback_days

UpdateHistoricalData == Update(UpdateSnapshots, MaxAppends)

NextStore == UpdateHistoricalData

SpecStore == InitStore /\ [][NextStore]_vars

(***************************************************************************)
(* The Historical Store invariant and the round trip of the rolling window *)
(***************************************************************************)
\* C1: after any sequence of updates, with any lookback_days L >= 0, every
\* stored series has at most L entries.
C1_LengthAtMostLookback ==
    \A a \in DOMAIN historical_data : Len(historical_data[a]) <= lookback_days

\* C2: for L >= 1, after L + k prices were appended for one key, the stored
\* series is exactly the last L of them in append order (duplicates kept);
\* with fewer than L appended it is all of them.
C2_WindowIsLastL ==
    lookback_days >= 1 =>
        \A a \in DOMAIN historical_data :
            LET n == Len(appended[a])
                k == n - lookback_days
            IN  /\ Len(historical_data[a]) = IF k >= 0 THEN lookback_days ELSE n
                /\ \A i \in 1..Len(historical_data[a]) :
                       historical_data[a][i] = appended[a][(IF k >= 0 THEN k ELSE 0) + i]

\* L = 2 and four appends, the last two of them the same price: k = 2
C2_Witness ==
    /\ op = "update"
    /\ lookback_days = 2
    /\ \E a \in DOMAIN appended :
          /\ Len(appended[a]) = 4
          /\ appended[a][3] = appended[a][4]
          /\ appended[a][1] # appended[a][3]
          /\ Len(historical_data[a]) = 2

(***************************************************************************)
(* MarketAnalyzer._calculate_trend                                         *)
(*                                                                         *)
(* A call that raises returns the name of the exception instead of a       *)
(* label.                                                                  *)
(***************************************************************************)
MinHistory == 20
ShortWindow == 20
LongWindow == 50

Exceptions == {"KeyError", "TypeError"}

\* current_price > ma20 > ma50 etc., with ma20 = sum20 / 20 and
\* ma50 = sum50 / 50 compared through cross-multiplication
TrendLabel(current_price, sum20, sum50, n50) ==
    LET above20 == current_price * ShortWindow > sum20
        below20 == current_price * ShortWindow < sum20
        ma20_gt_ma50 == sum20 * n50 > sum50 * ShortWindow
        ma20_lt_ma50 == sum20 * n50 < sum50 * ShortWindow
    IN  IF above20 /\ ma20_gt_ma50 THEN "strong_uptrend"
        ELSE IF above20 THEN "uptrend"
        ELSE IF below20 /\ ma20_lt_ma50 THEN "strong_downtrend"
        ELSE IF below20 THEN "downtrend"
        ELSE "neutral"

\* ma50 is the mean of everything stored, also below 50 points
_calculate_trend_ma50AlwaysOwn(h, price_data) ==
    IF ~IsMapping(price_data) THEN "TypeError"
    ELSE IF "symbol" \notin DOMAIN price_data THEN "KeyError"
    ELSE LET hist_prices == Get(h, price_data.symbol, <<>>)
         IN  IF Len(hist_prices) < MinHistory THEN "insufficient_data"
             ELSE IF "price" \notin DOMAIN price_data THEN "KeyError"
             ELSE LET last50 == PySliceLast(hist_prices, LongWindow)
                  IN  TrendLabel(price_data.price,
                                 SumSeq(PySliceLast(hist_prices, ShortWindow)),
                                 SumSeq(last50), Len(last50))

\* the history is looked up under the symbol, but a symbol without stored
\* points is not turned away: the averages of nothing are taken as 0
_calculate_trend_noMinimum(h, price_data) ==
    IF ~IsMapping(price_data) THEN "TypeError"
    ELSE IF "symbol" \notin DOMAIN price_data THEN "KeyError"
    ELSE LET hist_prices == Get(h, price_data.symbol, <<>>)
             sum20 == SumSeq(PySliceLast(hist_prices, ShortWindow))
             long == Len(hist_prices) >= LongWindow
             sum50 == IF long THEN SumSeq(PySliceLast(hist_prices, LongWindow))
                      ELSE sum20
             n50 == IF long THEN LongWindow ELSE ShortWindow
         IN  IF "price" \notin DOMAIN price_data THEN "KeyError"
             ELSE TrendLabel(price_data.price, sum20, sum50, n50)

_calculate_trend(h, price_data) ==
    IF ~IsMapping(price_data) THEN "TypeError"
    ELSE IF "symbol" \notin DOMAIN price_data THEN "KeyError"
    ELSE LET hist_prices == Get(h, price_data.symbol, <<>>)
         IN  IF Len(hist_prices) < MinHistory THEN "insufficient_data"
             ELSE LET sum20 == SumSeq(PySliceLast(hist_prices, ShortWindow))
                      long == Len(hist_prices) >= LongWindow
                      sum50 == IF long THEN SumSeq(PySliceLast(hist_prices, LongWindow))
                               ELSE sum20
                      n50 == IF long THEN LongWindow ELSE ShortWindow
                  IN  IF "price" \notin DOMAIN price_data THEN "KeyError"
                      ELSE TrendLabel(price_data.price, sum20, sum50, n50)

(***************************************************************************)
(* Stores and entries the trend classifier is run on.                      *)
(***************************************************************************)
MaxLevel == 3
MaxTrendAppends == 2
DefaultLookback == 252

Run(p, n) == [i \in 1..n |-> p]

\* a series of n1 prices a followed by n2 prices b
TrendSeries ==
    {Run(a, n1) \o Run(b, n2) :
        a \in 1..MaxLevel, b \in 1..MaxLevel,
        n1 \in {0, MinHistory - 1, LongWindow - ShortWindow},
        n2 \in {0, 1, ShortWindow}}

TrendEntries ==
    {PricePoint(sym, p) : sym \in {"SPX", "^GSPC"}, p \in 1..MaxLevel}
    \cup {[symbol |-> "SPX"], [price |-> 1], [scalar |-> 1]}

TrendUpdateSnapshots ==
    {<< [k |-> "indices", v |-> << [k |-> "SPX", v |-> PricePoint("^GSPC", p)] >>] >> :
        p \in 1..MaxLevel}

InitTrend ==
    /\ lookback_days = DefaultLookback
    /\ \E series \in TrendSeries :
          historical_data = IF series = <<>> THEN EmptyDict ELSE [a \in {"SPX"} |-> series]
    /\ appended = EmptyDict
    /\ op = "init"
    /\ arg = <<>>
    /\ raised = FALSE
    /\ out = [none |-> TRUE]
    /\ prev = [op |-> "none"]
    /\ MonitorNotStarted

CalculateTrend ==
    \E price_data \in TrendEntries :
        LET r == _calculate_trend(historical_data, price_data)
        IN  /\ op' = "trend"
            /\ arg' = price_data
            /\ raised' = (r \in Exceptions)
            /\ out' = [trend |-> r]
            /\ prev' = Previous
            /\ UNCHANGED monitorVars
            /\ UNCHANGED <<lookback_days, historical_data, appended>>

UpdateTrendStore == Update(TrendUpdateSnapshots, MaxTrendAppends)

NextTrend == CalculateTrend \/ UpdateTrendStore

SpecTrend == InitTrend /\ [][NextTrend]_vars

(***************************************************************************)
(* The trend label in terms of the stored series.                          *)
(***************************************************************************)
RECURSIVE SumRange(_, _, _)
\* series[lo] + ... + series[hi]
SumRange(series, lo, hi) ==
    IF lo > hi THEN 0 ELSE series[hi] + SumRange(series, lo, hi - 1)

\* the series stored for an entry: the one under its 'symbol'
SeriesOf(price_data) ==
    IF price_data.symbol \in DOMAIN historical_data
    THEN historical_data[price_data.symbol] ELSE <<>>

\* C3: with fewer than 20 stored points the trend is insufficient_data;
\* otherwise it is the first matching label of the ordering of the current
\* price, MA20 (mean of the last 20) and MA50 (mean of the last 50, equal to
\* MA20 below 50 points); with 20..49 points no strong_* label is returned.
C3_TrendBySeries ==
    (op = "trend" /\ IsMapping(arg) /\ "symbol" \in DOMAIN arg) =>
        LET series == SeriesOf(arg)
            n == Len(series)
            s20 == SumRange(series, n - 19, n)
            s50 == SumRange(series, n - 49, n)
            ma20_gt_ma50 == n >= 50 /\ s20 * 50 > s50 * 20
            ma20_lt_ma50 == n >= 50 /\ s20 * 50 < s50 * 20
        IN  /\ n < 20 => out.trend = "insufficient_data"
            /\ (n >= 20 /\ "price" \in DOMAIN arg) =>
                  LET p == arg.price
                  IN  out.trend =
                        IF p * 20 > s20 /\ ma20_gt_ma50 THEN "strong_uptrend"
                        ELSE IF p * 20 > s20 THEN "uptrend"
                        ELSE IF p * 20 < s20 /\ ma20_lt_ma50 THEN "strong_downtrend"
                        ELSE IF p * 20 < s20 THEN "downtrend"
                        ELSE "neutral"
            /\ (n >= 20 /\ n <= 49) =>
                  out.trend \notin {"strong_uptrend", "strong_downtrend"}

\* 39 stored points that rise, a price above MA20: only 'uptrend'
C3_Witness ==
    /\ op = "trend"
    /\ IsMapping(arg) /\ "symbol" \in DOMAIN arg /\ "price" \in DOMAIN arg
    /\ LET series == SeriesOf(arg)
       IN  /\ Len(series) = 39
           /\ series[1] < series[39]
           /\ arg.price > series[39]
    /\ out.trend = "uptrend"

(***************************************************************************)
(* MarketAnalyzer.regime_thresholds                                        *)
(***************************************************************************)
VixLow == 15
VixElevated == 25
VixHigh == 35
\* correlation thresholds 0.4 and 0.7, in tenths
CorrNormalX10 == 4
CorrHighX10 == 7
\* liquidity thresholds -0.5 and -1.0, in halves
LiqTightX2 == 0 - 1
LiqStressedX2 == 0 - 2

\* data.get(key, {}) on the snapshot or on one of its classes
GetClass(d, key) == IF HasKey(d, key) THEN Lookup(d, key) ELSE <<>>

(***************************************************************************)
(* MarketAnalyzer._analyze_risk_environment                                *)
(* Only KeyError is caught; a TypeError leaves the method.                 *)
(***************************************************************************)
RiskLabel(risk_score) ==
    IF risk_score >= 2 THEN "risk_on"
    ELSE IF risk_score <= 0 - 2 THEN "risk_off"
    ELSE "neutral"

VixContribution(vix_level) ==
    IF vix_level < VixLow THEN 2
    ELSE IF vix_level > VixHigh THEN 0 - 2
    ELSE 0

TrendContribution(spx_trend) ==
    IF spx_trend \in {"strong_uptrend", "uptrend"} THEN 1
    ELSE IF spx_trend \in {"strong_downtrend", "downtrend"} THEN 0 - 1
    ELSE 0

\* data.get('credit_spreads', {}).get('high_yield'), then 'if credit_spreads:'
CreditContribution(data) ==
    LET cs == GetClass(data, "credit_spreads")
    IN  IF ~HasKey(cs, "high_yield") THEN 0
        ELSE LET credit_spreads == Lookup(cs, "high_yield").scalar
             IN  IF credit_spreads = 0 THEN 0
                 ELSE IF credit_spreads < 3 THEN 1
                 ELSE IF credit_spreads > 5 THEN 0 - 1
                 ELSE 0

_analyze_risk_environment(h, data) ==
    IF ~HasKey(data, "indices") THEN "unknown"
    ELSE LET indices == Lookup(data, "indices")
         IN  IF ~HasKey(indices, "VIX") THEN "unknown"
             ELSE LET vix == Lookup(indices, "VIX")
                  IN  IF ~IsMapping(vix) THEN "TypeError"
                      ELSE IF "price" \notin DOMAIN vix THEN "unknown"
                      ELSE IF ~HasKey(indices, "SPX") THEN "unknown"
                      ELSE LET spx_trend == _calculate_trend(h, Lookup(indices, "SPX"))
                           IN  IF spx_trend = "KeyError" THEN "unknown"
                               ELSE IF spx_trend = "TypeError" THEN "TypeError"
                               ELSE RiskLabel(VixContribution(vix.price)
                                              + TrendContribution(spx_trend)
                                              + CreditContribution(data))

(***************************************************************************)
(* MarketAnalyzer._analyze_volatility_regime                               *)
(* Every exception is caught and gives 'unknown'.                          *)
(***************************************************************************)
VolatilityBucket(vix_level) ==
    IF vix_level < VixLow THEN "low"
    ELSE IF vix_level < VixElevated THEN "normal"
    ELSE IF vix_level < VixHigh THEN "elevated"
    ELSE "high"

\* .get('price', 0) without the test for a missing level
_analyze_volatility_regime_defaultZero(data) ==
    LET indices == GetClass(data, "indices")
        vix == IF HasKey(indices, "VIX") THEN Lookup(indices, "VIX") ELSE [scalar |-> 0]
    IN  IF ~IsMapping(vix) \/ "price" \notin DOMAIN vix
        THEN VolatilityBucket(0)
        ELSE VolatilityBucket(vix.price)

_analyze_volatility_regime(data) ==
    LET indices == GetClass(data, "indices")
    IN  IF ~HasKey(indices, "VIX") THEN "unknown"
        ELSE LET vix == Lookup(indices, "VIX")
             IN  IF ~IsMapping(vix) THEN "unknown"
                 ELSE IF "price" \notin DOMAIN vix THEN "unknown"
                 ELSE IF vix.price = 0 THEN "unknown"
                 ELSE VolatilityBucket(vix.price)

(***************************************************************************)
(* MarketAnalyzer._get_historical_volumes and                              *)
(* MarketAnalyzer._analyze_liquidity_conditions                            *)
(* Every exception is caught and gives 'unknown'.                          *)
(***************************************************************************)
_get_historical_volumes(h, asset) == Get(h, asset \o "_volume", <<>>)

RECURSIVE SumVals(_, _)
\* sum(spreads.values())
SumVals(rec, keys) ==
    IF keys = {} THEN 0
    ELSE LET a == CHOOSE x \in keys : TRUE
         IN  rec[a] + SumVals(rec, keys \ {a})

RECURSIVE VolumeLoop(_, _, _, _, _)
\* the loop over every class and asset: the score and the components so far
VolumeLoop(h, items, i, score, components) ==
    IF i > Len(items)
    THEN [score |-> score, components |-> components, error |-> FALSE]
    ELSE LET asset == items[i].k
             asset_data == items[i].v
         IN  IF ~IsMapping(asset_data)
             THEN [score |-> score, components |-> components, error |-> TRUE]
             ELSE IF "volume" \notin DOMAIN asset_data
             THEN VolumeLoop(h, items, i + 1, score, components)
             ELSE LET hist_volumes == _get_historical_volumes(h, asset)
                  IN  IF hist_volumes = <<>>
                      THEN VolumeLoop(h, items, i + 1, score, components)
                      ELSE IF asset_data.volume * Len(hist_volumes) > SumSeq(hist_volumes)
                      THEN VolumeLoop(h, items, i + 1, score + 1, components + 1)
                      ELSE VolumeLoop(h, items, i + 1, score - 1, components + 1)

\* avg_spread < tight gives +1, else avg_spread > stressed gives -2
SpreadContribution(spreads) ==
    LET n == Cardinality(DOMAIN spreads)
        total == SumVals(spreads, DOMAIN spreads)
    IN  IF 2 * total < LiqTightX2 * n THEN 1
        ELSE IF 2 * total > LiqStressedX2 * n THEN 0 - 2
        ELSE 0

LiquidityLabel(score, components) ==
    IF components = 0 THEN "unknown"
    ELSE IF 2 * score > components THEN "ample"
    ELSE IF 2 * score > 0 - components THEN "normal"
    ELSE "tight"

_analyze_liquidity_conditions(h, data) ==
    LET loop == VolumeLoop(h, Flatten(data), 1, 0, 0)
        quality == GetClass(data, "market_quality")
    IN  IF loop.error THEN "unknown"
        ELSE IF ~HasKey(quality, "bid_ask_spreads")
        THEN LiquidityLabel(loop.score, loop.components)
        ELSE LET spreads == Lookup(quality, "bid_ask_spreads")
             IN  LiquidityLabel(loop.score + SpreadContribution(spreads),
                                loop.components + 1)

(***************************************************************************)
(* MarketAnalyzer._calculate_yield_curve_slope, _analyze_credit_spreads    *)
(* and _identify_dominant_factors                                          *)
(***************************************************************************)
\* d.get(asset, {}).get('price', 0) on a record of entries
PriceOr0(d, asset) ==
    IF asset \in DOMAIN d /\ "price" \in DOMAIN d[asset] THEN d[asset].price ELSE 0

\* bonds.get(key, {}).get(asset, {}).get('price', 0)
BondPrice(bonds, key, asset) ==
    IF HasKey(bonds, key) THEN PriceOr0(Lookup(bonds, key), asset) ELSE 0

_calculate_yield_curve_slope(data) ==
    IF ~HasKey(data, "bonds") THEN 0
    ELSE LET bonds == Lookup(data, "bonds")
         IN  BondPrice(bonds, "rates", "US10Y") - BondPrice(bonds, "rates", "US2Y")

NoSpreads == [k \in {} |-> 0]

_analyze_credit_spreads(data) ==
    IF ~HasKey(data, "bonds") THEN NoSpreads
    ELSE LET bonds == Lookup(data, "bonds")
         IN  IF ~HasKey(bonds, "rates") THEN NoSpreads
             ELSE LET treasury_10y == BondPrice(bonds, "rates", "US10Y")
                      ig_yield == BondPrice(bonds, "corporates", "IG")
                      hy_yield == BondPrice(bonds, "corporates", "HY")
                      ig == IF treasury_10y # 0 /\ ig_yield # 0
                            THEN "ig_spread" :> (ig_yield - treasury_10y) ELSE NoSpreads
                      hy == IF treasury_10y # 0 /\ hy_yield # 0
                            THEN "hy_spread" :> (hy_yield - treasury_10y) ELSE NoSpreads
                  IN  ig @@ hy

Abs(x) == IF x < 0 THEN 0 - x ELSE x

\* [label] if the condition holds, [] otherwise
Factor(cond, label) == IF cond THEN <<label>> ELSE <<>>

VixFactor(data) ==
    LET indices == GetClass(data, "indices")
    IN  IF HasKey(indices, "VIX")
        THEN Factor(Get(Lookup(indices, "VIX"), "price", 0) > VixHigh, "risk_aversion")
        ELSE <<>>

\* the test reads the sign of the slope: an inverted curve is flagged
CurveFactor_signOfSlope(curve_slope) ==
    IF curve_slope < 0 THEN <<"recession_risk">>
    ELSE IF curve_slope > 1 THEN <<"growth_expectations">>
    ELSE <<>>

CurveFactor(curve_slope) ==
    IF Abs(curve_slope) < 0 THEN <<"recession_risk">>
    ELSE IF curve_slope > 1 THEN <<"growth_expectations">>
    ELSE <<>>

CreditFactor(spreads) == Factor(Get(spreads, "hy_spread", 0) > 5, "credit_stress")

DollarFactor(data) ==
    LET fx == GetClass(data, "fx")
    IN  IF HasKey(fx, "DXY")
        THEN LET dxy_change == Get(Lookup(fx, "DXY"), "change", 0)
             IN  Factor(Abs(dxy_change) > 1,
                        IF dxy_change > 0 THEN "dollar_dominance" ELSE "dollar_weakness")
        ELSE <<>>

RECURSIVE CommodityAny(_, _)
\* any(asset_data.get('change', 0) > 5 for ...): stops at the first True;
\* .get on a value that is not a mapping raises
CommodityAny(commodities, i) ==
    IF i > Len(commodities) THEN "false"
    ELSE IF ~IsMapping(commodities[i].v) THEN "error"
    ELSE IF Get(commodities[i].v, "change", 0) > 5 THEN "true"
    ELSE CommodityAny(commodities, i + 1)

CommodityFactor(data) ==
    Factor(CommodityAny(GetClass(data, "commodities"), 1) = "true", "commodity_pressure")

\* an AttributeError inside the try block
FactorsError(data) ==
    \/ LET indices == GetClass(data, "indices")
       IN  HasKey(indices, "VIX") /\ ~IsMapping(Lookup(indices, "VIX"))
    \/ LET fx == GetClass(data, "fx")
       IN  HasKey(fx, "DXY") /\ ~IsMapping(Lookup(fx, "DXY"))
    \/ CommodityAny(GetClass(data, "commodities"), 1) = "error"

\* the sentinel is appended to the labels instead of replacing an empty list
_identify_dominant_factors_sentinelAlways(data) ==
    IF FactorsError(data) THEN <<"unknown">>
    ELSE VixFactor(data) \o CurveFactor(_calculate_yield_curve_slope(data))
            \o CreditFactor(_analyze_credit_spreads(data))
            \o DollarFactor(data) \o CommodityFactor(data) \o <<"no_dominant_factor">>

_identify_dominant_factors(data) ==
    IF FactorsError(data) THEN <<"unknown">>
    ELSE LET factors == VixFactor(data) \o CurveFactor(_calculate_yield_curve_slope(data))
                          \o CreditFactor(_analyze_credit_spreads(data))
                          \o DollarFactor(data) \o CommodityFactor(data)
         IN  IF factors # <<>> THEN factors ELSE <<"no_dominant_factor">>

(***************************************************************************)
(* MarketAnalyzer._calculate_correlations and _analyze_correlation_regime  *)
(*                                                                         *)
(* The matrix is the Pearson correlation of the daily returns of every key *)
(* with at least 20 stored points.  Series of different lengths make the   *)
(* DataFrame constructor raise, which is caught and gives the empty        *)
(* matrix; the mean of an empty matrix, or of one with a NaN entry (a      *)
(* series of constant returns), is NaN and compares False with both        *)
(* thresholds.  A return (p' - p) / p is scaled by a common multiple of    *)
(* the prices of its series, which leaves the correlation unchanged.  The  *)
(* average over the whole matrix, diagonal included, is decided for one    *)
(* and for two series; the stores of this model hold no more.              *)
(***************************************************************************)
RECURSIVE Gcd(_, _)
Gcd(a, b) == IF b = 0 THEN a ELSE Gcd(b, a % b)

RECURSIVE LcmOf(_)
LcmOf(values) ==
    IF values = {} THEN 1
    ELSE LET v == CHOOSE x \in values : TRUE
             rest == LcmOf(values \ {v})
         IN  (v * rest) \div Gcd(v, rest)

\* np.diff(prices) / prices[:-1], times a common multiple of the prices
Returns(prices) ==
    LET m == LcmOf({prices[i] : i \in 1..Len(prices)})
    IN  [i \in 1..(Len(prices) - 1) |-> (prices[i + 1] - prices[i]) * (m \div prices[i])]

\* n * sum(x * y) - sum(x) * sum(y)
CoMoment(x, y) ==
    Len(x) * SumSeq([i \in 1..Len(x) |-> x[i] * y[i]]) - SumSeq(x) * SumSeq(y)

\* the keys whose returns enter the matrix
CorrelatedKeys(h) == {a \in DOMAIN h : Len(h[a]) >= MinHistory}

\* "empty": no matrix; "nan": a matrix with a NaN mean; otherwise whether the
\* mean of the absolute correlations exceeds threshold / 10
MeanAbsCorrAbove(h, thresholdX10) ==
    LET keys == CorrelatedKeys(h)
    IN  IF keys = {} THEN "empty"
        ELSE IF \E a, b \in keys : Len(h[a]) # Len(h[b]) THEN "empty"
        ELSE IF \E a \in keys : CoMoment(Returns(h[a]), Returns(h[a])) = 0 THEN "nan"
        ELSE CASE Cardinality(keys) = 1 -> IF 10 > thresholdX10 THEN "yes" ELSE "no"
               [] Cardinality(keys) = 2 ->
                    LET a == CHOOSE x \in keys : TRUE
                        b == CHOOSE x \in keys : x # a
                        x == Returns(h[a])
                        y == Returns(h[b])
                        cov == CoMoment(x, y)
                        \* (2 + 2|c|) / 4 > t / 10  iff  5|c| > t - 5
                        bound == thresholdX10 - 5
                    IN  IF bound < 0 THEN "yes"
                        ELSE IF 25 * cov * cov > bound * bound * CoMoment(x, x) * CoMoment(y, y)
                             THEN "yes" ELSE "no"

_analyze_correlation_regime(h) ==
    IF MeanAbsCorrAbove(h, CorrHighX10) = "yes" THEN "risk_off_correlation"
    ELSE IF MeanAbsCorrAbove(h, CorrNormalX10) = "yes" THEN "normal"
    ELSE "choppy"

(***************************************************************************)
(* MarketAnalyzer._determine_market_regime                                 *)
(* The result is the MarketRegime, or the exception that left the method.  *)
(***************************************************************************)
_determine_market_regime(h, data) ==
    LET risk_env == _analyze_risk_environment(h, data)
    IN  IF risk_env \in Exceptions
        THEN [exception |-> risk_env]
        ELSE [risk_environment |-> risk_env,
              volatility_regime |-> _analyze_volatility_regime(data),
              liquidity_conditions |-> _analyze_liquidity_conditions(h, data),
              correlation_regime |-> _analyze_correlation_regime(h),
              dominant_factors |-> _identify_dominant_factors(data)]

(***************************************************************************)
(* Snapshots and stores the sub-classifiers are run on.                    *)
(***************************************************************************)
Item(key, value) == << [k |-> key, v |-> value] >>

\* one optional item per choice: the empty sequence is 'key absent'
Optional(key, values) == {<<>>} \cup {Item(key, value) : value \in values}

\* a class with the given items, absent when it has none
ClassOf(key, items) == IF items = <<>> THEN <<>> ELSE Item(key, items)

VixLevels == {0, 10, 15, 20, 25, 30, 35, 40}
HighYieldLevels == {0, 2, 3, 5, 6}
SpxPrices == {1, 2, 3}

VixValues ==
    {PricePoint("^VIX", level) : level \in VixLevels}
    \cup {[symbol |-> "^VIX"], [scalar |-> 20]}

SpxValues ==
    {PricePoint(sym, p) : sym \in {"SPX"}, p \in SpxPrices}
    \cup {PricePoint("^GSPC", 3), [price |-> 3]}

\* snapshots for the risk environment and the volatility regime
RiskSnapshots ==
    {Item("indices", <<>>) \o credit : credit \in {<<>>, Item("credit_spreads", Item("high_yield", [scalar |-> 2]))}}
    \cup
    {ClassOf("indices", vix \o spx) \o ClassOf("credit_spreads", hy) :
        vix \in Optional("VIX", VixValues),
        spx \in Optional("SPX", SpxValues),
        hy \in Optional("high_yield", {[scalar |-> x] : x \in HighYieldLevels})}

VolumeLevels == {1, 2, 3}

SpxVolumeValues ==
    {[symbol |-> "^GSPC", price |-> 2, volume |-> v] : v \in VolumeLevels}
    \cup {PricePoint("^GSPC", 2)}

BidAskSpreads == {[SPX |-> 1], [SPX |-> 0 - 1], [SPX |-> 1, NDX |-> 0 - 2]}

\* snapshots for the liquidity conditions
LiquiditySnapshots ==
    {ClassOf("indices", spx) \o ClassOf("etfs", etf) \o ClassOf("credit_spreads", hy)
        \o ClassOf("market_quality", quality) :
        spx \in Optional("SPX", SpxVolumeValues),
        etf \in Optional("SPX", {[symbol |-> "SPY", price |-> 2, volume |-> v] : v \in {1, 3}}),
        hy \in Optional("high_yield", {[scalar |-> 2]}),
        quality \in Optional("bid_ask_spreads", BidAskSpreads)}

\* (US10Y, US2Y) yields: slopes 0, -1, 1, 2 and a missing 10-year yield
RatesValues ==
    {[US10Y |-> [price |-> t], US2Y |-> [price |-> w]] :
        <<t, w>> \in {<<4, 4>>, <<3, 4>>, <<4, 3>>, <<4, 2>>}}
    \cup {[US2Y |-> [price |-> 2]]}

\* high-yield yields: spreads 5 and 6 over a 10-year yield of 4
CorporatesValues == {[HY |-> [price |-> y]] : y \in {9, 10}}

DxyChanges == {0 - 2, 0 - 1, 1, 2}

CommodityItems ==
    {<<>>,
     Item("GOLD", [symbol |-> "GC=F", price |-> 2, change |-> 5]),
     Item("GOLD", [symbol |-> "GC=F", price |-> 2, change |-> 6]),
     Item("GOLD", [symbol |-> "GC=F", price |-> 2, change |-> 0])
        \o Item("OIL", [symbol |-> "CL=F", price |-> 2, change |-> 6]),
     Item("GOLD", [scalar |-> 6])}

\* snapshots for the dominant factors
FactorSnapshots ==
    {ClassOf("indices", vix) \o ClassOf("fx", dxy) \o ClassOf("commodities", com)
        \o ClassOf("bonds", rates \o corporates) :
        vix \in Optional("VIX", {PricePoint("^VIX", 35), PricePoint("^VIX", 40), [scalar |-> 40]}),
        dxy \in Optional("DXY", {[symbol |-> "DX-Y.NYB", price |-> 2, change |-> c] : c \in DxyChanges}),
        com \in CommodityItems,
        rates \in Optional("rates", RatesValues),
        corporates \in Optional("corporates", CorporatesValues)}

\* the SPX series: none, too short, flat, rising, falling
SpxSeries ==
    {<<>>, Run(2, MinHistory - 1), Run(2, MinHistory),
     Run(1, LongWindow - ShortWindow) \o Run(2, ShortWindow),
     Run(3, LongWindow - ShortWindow) \o Run(2, ShortWindow)}

VolumeSeries == {<<>>, <<2>>, <<1, 3>>}

\* a store with the given series; a key without points is absent
Store(spx, ndx, spx_volume) ==
    LET series == [a \in {"SPX", "NDX", "SPX_volume"} |->
                      IF a = "SPX" THEN spx ELSE IF a = "NDX" THEN ndx ELSE spx_volume]
    IN  [a \in {x \in DOMAIN series : series[x] # <<>>} |-> series[a]]

InitClassify ==
    /\ lookback_days = DefaultLookback
    /\ \E spx \in SpxSeries, spx_volume \in VolumeSeries :
          historical_data = Store(spx, <<>>, spx_volume)
    /\ appended = EmptyDict
    /\ op = "init"
    /\ arg = <<>>
    /\ raised = FALSE
    /\ out = [none |-> TRUE]
    /\ prev = [op |-> "none"]
    /\ MonitorNotStarted

\* one call of a method that returns a label and leaves the store alone;
\* a behaviour classifies once, on the store it has built
Call(name, snapshot, result) ==
    /\ op \in {"init", "update"}
    /\ op' = name
    /\ arg' = snapshot
    /\ raised' = (result \in Exceptions)
    /\ out' = [label |-> result]
    /\ prev' = Previous
    /\ UNCHANGED monitorVars
    /\ UNCHANGED <<lookback_days, historical_data, appended>>

AnalyzeRiskEnvironment ==
    \E s \in RiskSnapshots : Call("risk", s, _analyze_risk_environment(historical_data, s))

AnalyzeVolatilityRegime ==
    \E s \in RiskSnapshots : Call("volatility", s, _analyze_volatility_regime(s))

AnalyzeLiquidityConditions ==
    \E s \in LiquiditySnapshots :
        Call("liquidity", s, _analyze_liquidity_conditions(historical_data, s))

NextClassify ==
    \/ AnalyzeRiskEnvironment
    \/ AnalyzeVolatilityRegime
    \/ AnalyzeLiquidityConditions

SpecClassify == InitClassify /\ [][NextClassify]_vars

InitFactors ==
    /\ lookback_days = DefaultLookback
    /\ \E spx \in {<<>>, Run(2, MinHistory)} : historical_data = Store(spx, <<>>, <<>>)
    /\ appended = EmptyDict
    /\ op = "init"
    /\ arg = <<>>
    /\ raised = FALSE
    /\ out = [none |-> TRUE]
    /\ prev = [op |-> "none"]
    /\ MonitorNotStarted

IdentifyDominantFactors ==
    \E s \in FactorSnapshots :
        /\ op \in {"init", "update"}
        /\ op' = "factors"
        /\ arg' = s
        /\ raised' = FALSE
        /\ out' = [factors |-> _identify_dominant_factors(s)]
        /\ prev' = Previous
        /\ UNCHANGED monitorVars
        /\ UNCHANGED <<lookback_days, historical_data, appended>>

NextFactors == IdentifyDominantFactors

SpecFactors == InitFactors /\ [][NextFactors]_vars

(***************************************************************************)
(* _determine_market_regime called again and again, between updates.       *)
(***************************************************************************)
MaxRegimeAppends == 1

RegimeSnapshots ==
    {ClassOf("indices", vix \o spx) \o ClassOf("credit_spreads", hy) :
        vix \in Optional("VIX", {PricePoint("^VIX", 10)}),
        spx \in Optional("SPX", {[symbol |-> "SPX", price |-> 3, volume |-> 3]}),
        hy \in Optional("high_yield", {[scalar |-> 2]})}
    \cup
    {ClassOf("indices", Item("VIX", PricePoint("^VIX", 40)))
        \o ClassOf("market_quality", Item("bid_ask_spreads", [SPX |-> 1]))}

\* one step up after 10 points, or after 5
StepSeries == {<<>>, Run(1, 10) \o Run(2, 10), Run(1, 5) \o Run(2, 15)}

RegimeUpdateSnapshots ==
    {ClassOf("indices", Item("SPX", PricePoint("^GSPC", p))) : p \in {1, 2}}

InitRegime ==
    /\ lookback_days = DefaultLookback
    /\ \E spx \in {<<>>, Run(2, MinHistory - 1), Run(1, 10) \o Run(2, 10)},
          ndx \in StepSeries, spx_volume \in {<<>>, <<2>>} :
          historical_data = Store(spx, ndx, spx_volume)
    /\ appended = EmptyDict
    /\ op = "init"
    /\ arg = <<>>
    /\ raised = FALSE
    /\ out = [none |-> TRUE]
    /\ prev = [op |-> "none"]
    /\ MonitorNotStarted

\* the classification also records the snapshot in the store
DetermineMarketRegime_recordsSnapshot ==
    \E s \in RegimeSnapshots :
        /\ op' = "regime"
        /\ arg' = s
        /\ out' = _determine_market_regime(historical_data, s)
        /\ raised' = ("exception" \in DOMAIN out')
        /\ prev' = Previous
        /\ UNCHANGED monitorVars
        /\ historical_data' = _update_historical_data(historical_data, appended, s,
                                                      lookback_days).h
        /\ UNCHANGED <<lookback_days, appended>>

DetermineMarketRegime ==
    \E s \in RegimeSnapshots :
        /\ op' = "regime"
        /\ arg' = s
        /\ out' = _determine_market_regime(historical_data, s)
        /\ raised' = ("exception" \in DOMAIN out')
        /\ prev' = Previous
        /\ UNCHANGED monitorVars
        /\ UNCHANGED <<lookback_days, historical_data, appended>>

UpdateRegimeStore == Update(RegimeUpdateSnapshots, MaxRegimeAppends)

NextRegime == DetermineMarketRegime \/ UpdateRegimeStore

SpecRegime == InitRegime /\ [][NextRegime]_vars

(***************************************************************************)
(* The sub-classifiers in terms of the snapshot.                           *)
(***************************************************************************)
\* the VIX entry of a snapshot, when it has one
VixOf(d) == Lookup(Lookup(d, "indices"), "VIX")

HasVix(d) == HasKey(d, "indices") /\ HasKey(Lookup(d, "indices"), "VIX")

\* no 'indices' class, no 'VIX' under it, or no 'price' in it
VixMissing(d) ==
    \/ ~HasVix(d)
    \/ IsMapping(VixOf(d)) /\ "price" \notin DOMAIN VixOf(d)

VixLevelPresent(d) ==
    HasVix(d) /\ IsMapping(VixOf(d)) /\ "price" \in DOMAIN VixOf(d)

\* C4: for a snapshot without a VIX level, both the volatility regime and
\* the risk environment are 'unknown', and neither call raises.
C4_UnknownWithoutVix ==
    (op \in {"risk", "volatility"} /\ VixMissing(arg)) =>
        (out.label = "unknown" /\ ~raised)

\* a VIX entry without a price, next to an SPX entry with 20 stored points
C4_Witness ==
    /\ op = "risk"
    /\ HasVix(arg) /\ VixMissing(arg)
    /\ HasKey(Lookup(arg, "indices"), "SPX")
    /\ "SPX" \in DOMAIN historical_data
    /\ out.label = "unknown"

HasSpx(d) == HasKey(d, "indices") /\ HasKey(Lookup(d, "indices"), "SPX")

HasHighYield(d) ==
    HasKey(d, "credit_spreads") /\ HasKey(Lookup(d, "credit_spreads"), "high_yield")

HighYieldOf(d) == Lookup(Lookup(d, "credit_spreads"), "high_yield").scalar

\* the score of the claim: every present spread below 3 adds 1
ClaimedRiskScore(d, spx_trend) ==
    (IF VixOf(d).price < 15 THEN 2 ELSE IF VixOf(d).price > 35 THEN 0 - 2 ELSE 0)
    + (IF spx_trend \in {"strong_uptrend", "uptrend"} THEN 1
       ELSE IF spx_trend \in {"strong_downtrend", "downtrend"} THEN 0 - 1 ELSE 0)
    + (IF ~HasHighYield(d) THEN 0
       ELSE IF HighYieldOf(d) < 3 THEN 1
       ELSE IF HighYieldOf(d) > 5 THEN 0 - 1 ELSE 0)

\* C5: with VIX and SPX present the risk environment is the label of the
\* score: VIX < 15 adds 2, VIX > 35 subtracts 2; an up trend of SPX adds 1, a
\* down trend subtracts 1; a high-yield spread < 3 adds 1, > 5 subtracts 1,
\* an absent one adds nothing; >= 2 is risk_on, <= -2 risk_off, else neutral.
C5_RiskScore ==
    (op = "risk" /\ VixLevelPresent(arg) /\ HasSpx(arg)) =>
        LET spx_trend == _calculate_trend(historical_data, Lookup(Lookup(arg, "indices"), "SPX"))
            score == ClaimedRiskScore(arg, spx_trend)
        IN  spx_trend \notin Exceptions =>
                out.label = IF score >= 2 THEN "risk_on"
                            ELSE IF score <= 0 - 2 THEN "risk_off"
                            ELSE "neutral"

\* C6: for every VIX level >= 0 in the snapshot the volatility regime is its
\* bucket: low below 15, normal below 25, elevated below 35, high from 35;
\* 'unknown' is returned only when the level is missing.
C6_VolatilityBucket ==
    (op = "volatility" /\ VixLevelPresent(arg) /\ VixOf(arg).price >= 0) =>
        LET vix == VixOf(arg).price
        IN  out.label = IF vix < 15 THEN "low"
                        ELSE IF vix < 25 THEN "normal"
                        ELSE IF vix < 35 THEN "elevated"
                        ELSE "high"

\* the entries of a snapshot that carry a volume and have a volume history
VolumeComponents(d) ==
    LET items == Flatten(d)
    IN  {i \in 1..Len(items) :
            /\ IsMapping(items[i].v)
            /\ "volume" \in DOMAIN items[i].v
            /\ _get_historical_volumes(historical_data, items[i].k) # <<>>}

HasBidAsk(d) ==
    HasKey(d, "market_quality") /\ HasKey(Lookup(d, "market_quality"), "bid_ask_spreads")

RECURSIVE ClaimedVolumeScore(_, _)
\* +1 for a volume above the average of its history, -1 otherwise
ClaimedVolumeScore(d, indexes) ==
    IF indexes = {} THEN 0
    ELSE LET i == CHOOSE x \in indexes : TRUE
             item == Flatten(d)[i]
             hist == _get_historical_volumes(historical_data, item.k)
         IN  (IF item.v.volume * Len(hist) > SumRange(hist, 1, Len(hist)) THEN 1 ELSE 0 - 1)
             + ClaimedVolumeScore(d, indexes \ {i})

\* +1 for a mean spread below -0.5, -2 for one above -1.0
ClaimedSpreadScore(d) ==
    LET spreads == Lookup(Lookup(d, "market_quality"), "bid_ask_spreads")
        n == Cardinality(DOMAIN spreads)
        total == SumVals(spreads, DOMAIN spreads)
    IN  IF 2 * total < 0 - n THEN 1 ELSE IF total > 0 - n THEN 0 - 2 ELSE 0

\* C7: the liquidity conditions are 'unknown' with zero components, and
\* otherwise the label of score / components (ample above 0.5, normal above
\* -0.5, else tight), one component per entry with a volume and a volume
\* history and one for the bid-ask spreads when present.
C7_LiquidityScore ==
    op = "liquidity" =>
        LET volumes == VolumeComponents(arg)
            components == Cardinality(volumes) + IF HasBidAsk(arg) THEN 1 ELSE 0
            score == ClaimedVolumeScore(arg, volumes)
                        + IF HasBidAsk(arg) THEN ClaimedSpreadScore(arg) ELSE 0
        IN  out.label = IF components = 0 THEN "unknown"
                        ELSE IF 2 * score > components THEN "ample"
                        ELSE IF 2 * score > 0 - components THEN "normal"
                        ELSE "tight"

(***************************************************************************)
(* The dominant factors in terms of the snapshot.                          *)
(***************************************************************************)
\* the entries the factor rules read are mappings
FactorEntriesAreMappings(d) ==
    /\ HasVix(d) => IsMapping(VixOf(d))
    /\ \A c \in {"fx", "commodities"} :
          HasKey(d, c) => \A i \in 1..Len(Lookup(d, c)) : IsMapping(Lookup(d, c)[i].v)

\* the price of a bond, 0 when it is not in the snapshot
YieldOf(d, group, bond) ==
    IF /\ HasKey(d, "bonds")
       /\ HasKey(Lookup(d, "bonds"), group)
       /\ bond \in DOMAIN Lookup(Lookup(d, "bonds"), group)
       /\ "price" \in DOMAIN Lookup(Lookup(d, "bonds"), group)[bond]
    THEN Lookup(Lookup(d, "bonds"), group)[bond].price
    ELSE 0

\* US10Y - US2Y
SlopeOf(d) == YieldOf(d, "rates", "US10Y") - YieldOf(d, "rates", "US2Y")

\* the high-yield spread exceeds 5: both yields are there and HY - US10Y > 5
HySpreadAbove5(d) ==
    /\ YieldOf(d, "rates", "US10Y") # 0
    /\ YieldOf(d, "corporates", "HY") # 0
    /\ YieldOf(d, "corporates", "HY") - YieldOf(d, "rates", "US10Y") > 5

VixAboveHigh(d) == HasVix(d) /\ "price" \in DOMAIN VixOf(d) /\ VixOf(d).price > 35

HasDxy(d) == HasKey(d, "fx") /\ HasKey(Lookup(d, "fx"), "DXY")

DxyChangeOf(d) ==
    IF HasDxy(d) /\ "change" \in DOMAIN Lookup(Lookup(d, "fx"), "DXY")
    THEN Lookup(Lookup(d, "fx"), "DXY").change ELSE 0

CommodityAbove5(d) ==
    /\ HasKey(d, "commodities")
    /\ \E i \in 1..Len(Lookup(d, "commodities")) :
          LET e == Lookup(d, "commodities")[i].v
          IN  "change" \in DOMAIN e /\ e.change > 5

\* a condition under which the code adds a label
SomeTrigger(d) ==
    \/ VixAboveHigh(d)
    \/ SlopeOf(d) > 1
    \/ HySpreadAbove5(d)
    \/ DxyChangeOf(d) > 1 \/ DxyChangeOf(d) < 0 - 1
    \/ CommodityAbove5(d)

Members(seq) == {seq[i] : i \in 1..Len(seq)}

\* C8: the dominant factors are exactly [no_dominant_factor] when no trigger
\* condition is met, and do not contain no_dominant_factor when one is.
C8_SentinelIffNoTrigger ==
    (op = "factors" /\ FactorEntriesAreMappings(arg)) =>
        /\ ~SomeTrigger(arg) => out.factors = <<"no_dominant_factor">>
        /\ SomeTrigger(arg) =>
              /\ "no_dominant_factor" \notin Members(out.factors)
              /\ out.factors # <<>>

\* two triggers at once: a steep curve and a strong dollar
C8_Witness ==
    /\ op = "factors"
    /\ FactorEntriesAreMappings(arg)
    /\ SlopeOf(arg) > 1
    /\ DxyChangeOf(arg) > 1
    /\ out.factors = <<"growth_expectations", "dollar_dominance">>

\* the labels other than recession_risk are there exactly on their triggers
OtherFactorsIffTriggers(d, factors) ==
    /\ "risk_aversion" \in factors <=> VixAboveHigh(d)
    /\ "growth_expectations" \in factors <=> SlopeOf(d) > 1
    /\ "credit_stress" \in factors <=> HySpreadAbove5(d)
    /\ "dollar_dominance" \in factors <=> DxyChangeOf(d) > 1
    /\ "dollar_weakness" \in factors <=> DxyChangeOf(d) < 0 - 1
    /\ "commodity_pressure" \in factors <=> CommodityAbove5(d)

\* C9: each label is among the dominant factors exactly when its trigger
\* holds: risk_aversion iff VIX > 35, recession_risk iff the yield-curve
\* slope is negative, growth_expectations iff it exceeds 1, credit_stress iff
\* the high-yield spread exceeds 5, dollar_dominance / dollar_weakness iff
\* the DXY change is above 1 / below -1, commodity_pressure iff some
\* commodity changed by more than 5.
C9_FactorsIffTriggers ==
    (op = "factors" /\ FactorEntriesAreMappings(arg)) =>
        /\ OtherFactorsIffTriggers(arg, Members(out.factors))
        /\ "recession_risk" \in Members(out.factors) <=> SlopeOf(arg) < 0

\* C23: the yield-curve condition never triggers: for every snapshot, those
\* with a negative slope US10Y - US2Y included, recession_risk is not among
\* the dominant factors returned.
C23_NoRecessionRisk ==
    op = "factors" => "recession_risk" \notin Members(out.factors)

\* an inverted curve and nothing else: the sentinel is returned
C23_Witness ==
    /\ op = "factors"
    /\ FactorEntriesAreMappings(arg)
    /\ SlopeOf(arg) < 0
    /\ out.factors = <<"no_dominant_factor">>

ZScoreThreshold == 3
ZScoreHigh == 4
MoveThresholdPct == 5
MoveHighPct == 10
\* volume_zscore_threshold = 2.5, in halves
VolumeZThresholdX2 == 5
VolumeZHigh == 3

RECURSIVE Entries(_)
\* (asset_class, asset, entry) in the order the nested loops visit them
Entries(d) ==
    IF d = <<>> THEN <<>>
    ELSE [i \in 1..Len(d[1].v) |-> [c |-> d[1].k, k |-> d[1].v[i].k, v |-> d[1].v[i].v]]
         \o Entries(Tail(d))

\* zscore(a)[0]: the z-score of the oldest point
ZDeviation_oldestPoint(a) == Len(a) * a[1] - SumSeq(a)

\* N * (a[-1] - mean(a))
ZDeviation(a) == Len(a) * a[Len(a)] - SumSeq(a)

\* sum over i of (N * (a[i] - mean(a)))^2 = N^3 * std(a)^2
ZSpread(a) ==
    LET total == SumSeq(a)
    IN  SumSeq([i \in 1..Len(a) |-> (Len(a) * a[i] - total) * (Len(a) * a[i] - total)])

\* abs(zscore(a)[-1]) > num / den
AbsZAbove(a, num, den) ==
    /\ ZSpread(a) # 0
    /\ den * den * Len(a) * ZDeviation(a) * ZDeviation(a) > num * num * ZSpread(a)

\* f"{asset_class}_{asset}"
AssetName(item) == item.c \o "_" \o item.k

\* the try block of one entry raises: a number that is not 0 is subscripted,
\* or 'symbol' is missing, or 'price' is missing once 20 points are stored
PriceEntryRaises(h, price_data) ==
    IF ~IsMapping(price_data) THEN price_data.scalar # 0
    ELSE \/ "symbol" \notin DOMAIN price_data
         \/ /\ Len(Get(h, price_data.symbol, <<>>)) >= MinHistory
            /\ "price" \notin DOMAIN price_data

\* what one entry that does not raise appends
PriceEntryAnomalies(h, item) ==
    LET price_data == item.v
    IN  IF ~IsMapping(price_data) THEN <<>>
        ELSE LET hist_prices == Get(h, price_data.symbol, <<>>)
             IN  IF Len(hist_prices) < MinHistory THEN <<>>
                 ELSE LET a == Append(hist_prices, price_data.price)
                          change == Get(price_data, "change", 0)
                      IN  (IF AbsZAbove(a, ZScoreThreshold, 1)
                           THEN << [type |-> "price_zscore", asset |-> AssetName(item),
                                    severity |-> IF AbsZAbove(a, ZScoreHigh, 1)
                                                 THEN "high" ELSE "medium"] >>
                           ELSE <<>>)
                          \o
                          (IF Abs(change) > MoveThresholdPct
                           THEN << [type |-> "price_move", asset |-> AssetName(item),
                                    move |-> change,
                                    severity |-> IF Abs(change) > MoveHighPct
                                                 THEN "high" ELSE "medium"] >>
                           ELSE <<>>)

RECURSIVE PriceAnomaliesFrom(_, _, _)
PriceAnomaliesFrom(h, items, i) ==
    IF i > Len(items) THEN <<>>
    ELSE IF PriceEntryRaises(h, items[i].v) THEN PriceAnomaliesFrom(h, items, i + 1)
    ELSE PriceEntryAnomalies(h, items[i]) \o PriceAnomaliesFrom(h, items, i + 1)

\* the try block is around the loops: the first failure ends the detection
_detect_price_anomalies_abortsOnError(h, data) ==
    LET items == Entries(data)
        failing == {i \in 1..Len(items) : PriceEntryRaises(h, items[i].v)}
    IN  IF failing = {} THEN PriceAnomaliesFrom(h, items, 1)
        ELSE LET first == CHOOSE i \in failing : \A j \in failing : i <= j
             IN  PriceAnomaliesFrom(h, SubSeq(items, 1, first - 1), 1)

_detect_price_anomalies(h, data) == PriceAnomaliesFrom(h, Entries(data), 1)

\* 'volume' not in price_data raises for a number
VolumeEntryRaises(price_data) == ~IsMapping(price_data)

VolumeEntryAnomalies(h, item) ==
    LET price_data == item.v
    IN  IF "volume" \notin DOMAIN price_data THEN <<>>
        ELSE LET current_volume == price_data.volume
                 hist_volumes == _get_historical_volumes(h, item.k)
             IN  IF hist_volumes = <<>> THEN <<>>
                 ELSE LET a == Append(hist_volumes, current_volume)
                      IN  IF AbsZAbove(a, VolumeZThresholdX2, 2)
                          THEN << [type |-> "volume_anomaly", asset |-> AssetName(item),
                                   current_volume |-> current_volume,
                                   severity |-> IF AbsZAbove(a, VolumeZHigh, 1)
                                                THEN "high" ELSE "medium"] >>
                          ELSE <<>>

RECURSIVE VolumeAnomaliesFrom(_, _, _)
VolumeAnomaliesFrom(h, items, i) ==
    IF i > Len(items) THEN <<>>
    ELSE IF VolumeEntryRaises(items[i].v) THEN VolumeAnomaliesFrom(h, items, i + 1)
    ELSE VolumeEntryAnomalies(h, items[i]) \o VolumeAnomaliesFrom(h, items, i + 1)

_detect_volume_anomalies(h, data) == VolumeAnomaliesFrom(h, Entries(data), 1)

(***************************************************************************)
(* Stores and snapshots the detectors are run on.                          *)
(***************************************************************************)
\* too short, flat, two levels, and the 25 constant prices of 100
AnomalyPriceSeries ==
    {<<>>, Run(2, MinHistory - 1), Run(2, MinHistory),
     Run(1, 10) \o Run(3, 10), Run(100, 25)}

AnomalyVolumeSeries == {<<>>, <<1, 3>>, Run(2, 8), Run(2, 12)}

AnomalyPrices == {2, 6, 7, 130}

AnomalyChanges == {0 - 11, 0 - 6, 5, 6, 10, 11, 30}

\* entries the collector produces, with and without a change and a volume
GoodEntries ==
    {PricePoint("SPX", p) : p \in AnomalyPrices}
    \cup {[symbol |-> "SPX", price |-> p, change |-> c] :
            p \in AnomalyPrices, c \in AnomalyChanges}
    \cup {[symbol |-> "SPX", price |-> 2, change |-> c, volume |-> v] :
            c \in {5, 6}, v \in {2, 5}}
    \cup {[symbol |-> "^GSPC", price |-> 130, change |-> 30, volume |-> 5]}

\* entries with a missing field, and numbers where a mapping is expected
BadEntries ==
    {[symbol |-> "SPX", change |-> 6], [price |-> 130, change |-> 30, volume |-> 5],
     [scalar |-> 0], [scalar |-> 6]}

PairedEntries ==
    {[symbol |-> "SPX", price |-> 130, change |-> 30, volume |-> 5],
     [symbol |-> "SPX", price |-> 7, change |-> 6, volume |-> 2],
     [symbol |-> "SPX", price |-> 2, change |-> 5]}

AnomalySnapshots ==
    {Item("indices", Item("SPX", e)) : e \in GoodEntries \cup BadEntries}
    \cup
    {Item("indices", Item("NDX", bad) \o Item("SPX", good)) :
        bad \in BadEntries, good \in PairedEntries}
    \cup
    {Item("indices", Item("SPX", good)) \o Item("etfs", Item("SPX", bad)) :
        bad \in BadEntries, good \in PairedEntries}

InitAnomaly ==
    /\ lookback_days = DefaultLookback
    /\ \E spx \in AnomalyPriceSeries, spx_volume \in AnomalyVolumeSeries :
          historical_data = Store(spx, <<>>, spx_volume)
    /\ appended = EmptyDict
    /\ op = "init"
    /\ arg = <<>>
    /\ raised = FALSE
    /\ out = [none |-> TRUE]
    /\ prev = [op |-> "none"]
    /\ MonitorNotStarted

\* one call of a detector: it returns a list and leaves the store alone
Detect(name, snapshot, anomalies) ==
    /\ op \in {"init", "update"}
    /\ op' = name
    /\ arg' = snapshot
    /\ raised' = FALSE
    /\ out' = [anomalies |-> anomalies]
    /\ prev' = Previous
    /\ UNCHANGED monitorVars
    /\ UNCHANGED <<lookback_days, historical_data, appended>>

DetectPriceAnomalies ==
    \E s \in AnomalySnapshots :
        Detect("price_anomalies", s, _detect_price_anomalies(historical_data, s))

DetectVolumeAnomalies ==
    \E s \in AnomalySnapshots :
        Detect("volume_anomalies", s, _detect_volume_anomalies(historical_data, s))

NextAnomaly == DetectPriceAnomalies \/ DetectVolumeAnomalies

SpecAnomaly == InitAnomaly /\ [][NextAnomaly]_vars

(***************************************************************************)
(* The anomalies in terms of the snapshot and the stored series.           *)
(***************************************************************************)
\* the positions of the anomalies of one type reported for one asset
AnomaliesFor(anomalies, type, name) ==
    {j \in 1..Len(anomalies) : anomalies[j].type = type /\ anomalies[j].asset = name}

\* the entries of the snapshot that report a daily change
EntriesWithChange(d) ==
    {i \in 1..Len(Entries(d)) :
        IsMapping(Entries(d)[i].v) /\ "change" \in DOMAIN Entries(d)[i].v}

\* C11: an entry whose reported daily change exceeds 5% in magnitude gets
\* exactly one price_move anomaly, 'high' above 10% and 'medium' otherwise,
\* however many points are stored for it; a change of at most 5% gets none.
C11_PriceMoveIndependent ==
    op = "price_anomalies" =>
        \A i \in EntriesWithChange(arg) :
            LET item == Entries(arg)[i]
                change == item.v.change
                magnitude == IF change < 0 THEN 0 - change ELSE change
                moves == AnomaliesFor(out.anomalies, "price_move", AssetName(item))
            IN  IF magnitude > 5
                THEN /\ Cardinality(moves) = 1
                     /\ \A j \in moves :
                           out.anomalies[j].severity =
                               IF magnitude > 10 THEN "high" ELSE "medium"
                ELSE moves = {}

\* the entries with a current price and at least 20 points stored under
\* their symbol
EntriesWithHistory(d) ==
    {i \in 1..Len(Entries(d)) :
        LET e == Entries(d)[i].v
        IN  /\ IsMapping(e) /\ "symbol" \in DOMAIN e /\ "price" \in DOMAIN e
            /\ e.symbol \in DOMAIN historical_data
            /\ Len(historical_data[e.symbol]) >= 20}

\* N * sum(a^2) - sum(a)^2 = N^2 * variance, for a = series + [x]
VarianceN2(series, x) ==
    LET n == Len(series)
        total == SumRange(series, 1, n) + x
        squares == SumRange([i \in 1..n |-> series[i] * series[i]], 1, n) + x * x
    IN  (n + 1) * squares - total * total

\* N * (x - mean), for a = series + [x]
DeviationN(series, x) == (Len(series) + 1) * x - (SumRange(series, 1, Len(series)) + x)

\* C12: with at least 20 stored points a price_zscore anomaly is emitted iff
\* |z| > 3, z the population z-score of the current price within
\* history + [price]; its severity is 'high' iff |z| > 4.  For n equal
\* prices and a different current price z * z = n and the severity is high.
C12_ZScoreAnomaly ==
    op = "price_anomalies" =>
        \A i \in EntriesWithHistory(arg) :
            LET item == Entries(arg)[i]
                series == historical_data[item.v.symbol]
                x == item.v.price
                dev == DeviationN(series, x)
                var == VarianceN2(series, x)
                above3 == var > 0 /\ dev * dev > 9 * var
                above4 == var > 0 /\ dev * dev > 16 * var
                flagged == AnomaliesFor(out.anomalies, "price_zscore", AssetName(item))
            IN  /\ Cardinality(flagged) = IF above3 THEN 1 ELSE 0
                /\ \A j \in flagged :
                      out.anomalies[j].severity = IF above4 THEN "high" ELSE "medium"
                /\ ((\A k \in 1..Len(series) : series[k] = series[1]) /\ x # series[1]) =>
                      /\ dev * dev = Len(series) * var
                      /\ \E j \in flagged : out.anomalies[j].severity = "high"

\* history [100] * 25, current price 130, change 30: both anomalies
C12_Witness ==
    /\ op = "price_anomalies"
    /\ "SPX" \in DOMAIN historical_data
    /\ historical_data["SPX"] = Run(100, 25)
    /\ arg = Item("indices", Item("SPX", [symbol |-> "SPX", price |-> 130, change |-> 30]))
    /\ Len(out.anomalies) = 2
    /\ out.anomalies[1].type = "price_zscore"
    /\ out.anomalies[2].type = "price_move" /\ out.anomalies[2].severity = "high"

\* the snapshot without the entry at position i of the loops
RECURSIVE WithoutEntry(_, _)
WithoutEntry(d, i) ==
    IF i <= Len(d[1].v)
    THEN << [k |-> d[1].k,
             v |-> SubSeq(d[1].v, 1, i - 1) \o SubSeq(d[1].v, i + 1, Len(d[1].v))] >>
         \o Tail(d)
    ELSE << d[1] >> \o WithoutEntry(Tail(d), i - Len(d[1].v))

\* the entries whose analysis raises inside the detector that ran last
RaisingEntries(d) ==
    {i \in 1..Len(Entries(d)) :
        IF op = "price_anomalies" THEN PriceEntryRaises(historical_data, Entries(d)[i].v)
        ELSE VolumeEntryRaises(Entries(d)[i].v)}

\* C15: when analysing one entry raises, the detector does not raise and
\* returns what it returns for the snapshot without that entry.
C15_FailureIsolated ==
    op \in {"price_anomalies", "volume_anomalies"} =>
        /\ ~raised
        /\ \A i \in RaisingEntries(arg) :
              out.anomalies =
                  IF op = "price_anomalies"
                  THEN _detect_price_anomalies(historical_data, WithoutEntry(arg, i))
                  ELSE _detect_volume_anomalies(historical_data, WithoutEntry(arg, i))

\* a failing entry first, then an entry that is flagged twice
C15_Witness ==
    /\ op = "price_anomalies"
    /\ Len(Entries(arg)) = 2
    /\ RaisingEntries(arg) = {1}
    /\ Len(out.anomalies) = 2

(***************************************************************************)
(* The update step and malformed entries.                                  *)
(***************************************************************************)
\* the keys a snapshot has entries for
SnapshotKeys(d) == {Flatten(d)[i].k : i \in 1..Len(Flatten(d))}

\* the entries of a snapshot for one key that are mappings with a 'price'
WellFormedFor(d, a) ==
    {i \in 1..Len(Flatten(d)) :
        /\ Flatten(d)[i].k = a
        /\ IsMapping(Flatten(d)[i].v)
        /\ "price" \in DOMAIN Flatten(d)[i].v}

\* C14: the update step never raises; an entry without 'price' or that is not
\* a mapping is skipped, every well-formed entry of the same snapshot is
\* appended exactly once, and the series of keys that are not in the snapshot
\* are unchanged.
C14_UpdateSkipsMalformed ==
    [][op' = "update" =>
          /\ ~raised'
          /\ \A a \in SnapshotKeys(arg') :
                WellFormedFor(arg', a) # {} =>
                    /\ a \in DOMAIN appended'
                    /\ Len(appended'[a]) =
                          (IF a \in DOMAIN appended THEN Len(appended[a]) ELSE 0)
                          + Cardinality(WellFormedFor(arg', a))
          /\ \A a \in DOMAIN historical_data :
                a \notin SnapshotKeys(arg') =>
                    /\ a \in DOMAIN historical_data'
                    /\ historical_data'[a] = historical_data[a]
      ]_vars

(***************************************************************************)
(* The volume history: _update_historical_data followed by                 *)
(* _get_historical_volumes.                                                *)
(***************************************************************************)
VolumeStoreAssets == {"SPX", "NDX"}

\* what the market collector produces for one symbol, with its volume
VolumeEntries ==
    {[symbol |-> "^GSPC", price |-> p, volume |-> v] : p \in 1..MaxPrice, v \in {1, 2}}
    \cup {PricePoint("^GSPC", 1)}

VolumeUpdateSnapshots ==
    {Item("indices", Item(a, e)) : a \in VolumeStoreAssets, e \in VolumeEntries}
    \cup
    {Item("indices", Item("SPX", e1) \o Item("NDX", e2)) :
        e1 \in VolumeEntries, e2 \in VolumeEntries}

InitVolumeStore ==
    /\ lookback_days \in 1..MaxLookback
    /\ historical_data = EmptyDict
    /\ appended = EmptyDict
    /\ op = "init"
    /\ arg = <<>>
    /\ raised = FALSE
    /\ out = [none |-> TRUE]
    /\ prev = [op |-> "none"]
    /\ MonitorNotStarted

UpdateVolumeStore == Update(VolumeUpdateSnapshots, MaxAppends)

\* one read of the volume history of an asset, right after an update
GetHistoricalVolumes ==
    \E asset \in VolumeStoreAssets :
        /\ op = "update"
        /\ op' = "volumes"
        /\ arg' = asset
        /\ raised' = FALSE
        /\ out' = [volumes |-> _get_historical_volumes(historical_data, asset)]
        /\ prev' = Previous
        /\ UNCHANGED monitorVars
        /\ UNCHANGED <<lookback_days, historical_data, appended>>

NextVolumeStore == UpdateVolumeStore \/ GetHistoricalVolumes

SpecVolumeStore == InitVolumeStore /\ [][NextVolumeStore]_vars

\* the entries of a snapshot that carry a volume
EntriesWithVolume(d) ==
    {i \in 1..Len(Flatten(d)) :
        IsMapping(Flatten(d)[i].v) /\ "volume" \in DOMAIN Flatten(d)[i].v}

\* C16: after the update step has processed an entry for a symbol that
\* carries a volume, the volume history of the symbol is non-empty, ends with
\* that volume and has at most lookback_days entries.
C16_VolumeSeriesKept ==
    (op = "update" /\ ~raised) =>
        \A i \in EntriesWithVolume(arg) :
            LET item == Flatten(arg)[i]
                volumes == _get_historical_volumes(historical_data, item.k)
            IN  /\ volumes # <<>>
                /\ volumes[Len(volumes)] = item.v.volume
                /\ Len(volumes) <= lookback_days

(***************************************************************************)
(* The metrics over the Historical Store, and analyze_market_conditions.   *)
(*                                                                         *)
(* A float that a method computes from stored series is kept as the        *)
(* expression that computes it; the defaults 0.0, 0.5 and None are kept as *)
(* themselves.  The correlation matrix is kept as the set of keys that     *)
(* label its rows; it is empty iff that set is.                            *)
(***************************************************************************)
HistCorrLookback == 30

\* the rows of the matrix of every key with at least 20 points, any length
_calculate_correlations_anyHistory(h) ==
    IF \E a, b \in DOMAIN h : Len(h[a]) # Len(h[b]) THEN {} ELSE DOMAIN h

\* series of different lengths make the DataFrame constructor raise, which
\* is caught and gives the empty matrix
_calculate_correlations(h) ==
    LET price_data == CorrelatedKeys(h)
    IN  IF \E a, b \in price_data : Len(h[a]) # Len(h[b]) THEN {} ELSE price_data

\* the upper triangle of a matrix with one row has no element
_calculate_average_correlation(h) ==
    LET corr_matrix == _calculate_correlations(h)
    IN  IF corr_matrix = {} THEN "0.0"
        ELSE IF Cardinality(corr_matrix) = 1 THEN "0.0"
        ELSE "mean(abs(correlations))"

\* only KeyError and ValueError are caught
_calculate_volatility_percentile(h, data) ==
    LET vix_history == Get(h, "VIX", <<>>)
        indices == GetClass(data, "indices")
    IN  IF ~HasKey(data, "indices") \/ ~HasKey(indices, "VIX") THEN "0.5"
        ELSE IF ~IsMapping(Lookup(indices, "VIX")) THEN "TypeError"
        ELSE IF "price" \notin DOMAIN Lookup(indices, "VIX") THEN "0.5"
        ELSE IF vix_history # <<>> THEN "percentileofscore(vix_history, current_vix) / 100"
        ELSE "0.5"

\* the entries of the snapshot whose asset has at least 20 stored points
EntriesWithReturns(h, data) ==
    {i \in 1..Len(Entries(data)) : Len(Get(h, Entries(data)[i].k, <<>>)) >= MinHistory}

_calculate_risk_dispersion(h, data) ==
    IF EntriesWithReturns(h, data) # {} THEN "std(volatilities)" ELSE "0.0"

_calculate_tail_risk(h, data) ==
    IF EntriesWithReturns(h, data) # {} THEN "percentile(all_returns, 5)" ELSE "0.0"

_calculate_rate_volatility(h, data) ==
    IF ~HasKey(data, "bonds") THEN "None"
    ELSE IF Len(Get(h, "US10Y", <<>>)) < MinHistory THEN "None"
    ELSE "std(diff(yields_10y)) * sqrt(252)"

_calculate_currency_volatility(h, data) ==
    IF ~HasKey(data, "fx") THEN "None"
    ELSE IF Len(Get(h, "DXY", <<>>)) < MinHistory THEN "None"
    ELSE "std(diff(dxy_data) / dxy_data[:-1]) * sqrt(252)"

\* the entries for rates and currencies of _calculate_market_specific_metrics
_calculate_market_specific_metrics(h, data) ==
    (IF HasKey(data, "rates")
     THEN [rate_volatility |-> _calculate_rate_volatility(h, data)] ELSE EmptyDict)
    @@
    (IF HasKey(data, "fx")
     THEN [currency_volatility |-> _calculate_currency_volatility(h, data)] ELSE EmptyDict)

_calculate_risk_metrics(h, data) ==
    LET volatility_percentile == _calculate_volatility_percentile(h, data)
    IN  IF volatility_percentile \in Exceptions
        THEN [exception |-> volatility_percentile]
        ELSE [cross_asset_correlation |-> _calculate_average_correlation(h),
              volatility_percentile |-> volatility_percentile,
              risk_dispersion |-> _calculate_risk_dispersion(h, data),
              tail_risk |-> _calculate_tail_risk(h, data)]
             @@ _calculate_market_specific_metrics(h, data)

\* _analyze_trends has no try block: the first entry whose trend raises ends it
_analyze_trends(h, data) ==
    LET items == Entries(data)
        failing == {i \in 1..Len(items) : _calculate_trend(h, items[i].v) \in Exceptions}
    IN  IF failing # {}
        THEN LET first == CHOOSE i \in failing : \A j \in failing : i <= j
             IN  [exception |-> _calculate_trend(h, items[first].v)]
        ELSE [trends |-> [i \in 1..Len(items) |->
                             [k |-> AssetName(items[i]),
                              v |-> _calculate_trend(h, items[i].v)]]]

\* without a current matrix, without a key with 30 points, or with a single
\* row there is no pair to compare; the stores of this model have no other
\* case
_detect_correlation_anomalies(h) ==
    LET current_corr == _calculate_correlations(h)
        hist_corr == {a \in DOMAIN h : Len(h[a]) >= HistCorrLookback}
    IN  CASE current_corr = {} -> <<>>
          [] current_corr # {} /\ hist_corr = {} -> <<>>
          [] current_corr # {} /\ hist_corr # {} /\ Cardinality(current_corr) = 1 -> <<>>

_detect_anomalies(h, data) ==
    _detect_price_anomalies(h, data)
        \o _detect_correlation_anomalies(h)
        \o _detect_volume_anomalies(h, data)

\* the slope and the spreads of _analyze_leading_indicators
_analyze_leading_indicators(data) ==
    [yield_curve_slope |-> _calculate_yield_curve_slope(data),
     credit_spreads |-> _analyze_credit_spreads(data)]

\* the exception of the update step: that of the first entry that fails
UpdateException(new_data) ==
    LET items == Flatten(new_data)
        failing == {i \in 1..Len(items) :
                       ~IsMapping(items[i].v) \/ "price" \notin DOMAIN items[i].v}
        first == CHOOSE i \in failing : \A j \in failing : i <= j
    IN  IF ~IsMapping(items[first].v) THEN "TypeError" ELSE "KeyError"

\* the store after the call, and the MarketAnalysis or the exception that is
\* raised again
analyze_market_conditions(h, log, current_data, new_data, L) ==
    LET u == _update_historical_data(h, log, new_data, L)
        regime == _determine_market_regime(u.h, current_data)
        trends == _analyze_trends(u.h, current_data)
        risk_metrics == _calculate_risk_metrics(u.h, current_data)
    IN  [h |-> u.h,
         log |-> u.log,
         result |->
            IF u.raised THEN [exception |-> UpdateException(new_data)]
            ELSE IF "exception" \in DOMAIN regime THEN regime
            ELSE IF "exception" \in DOMAIN trends THEN trends
            ELSE IF "exception" \in DOMAIN risk_metrics THEN risk_metrics
            ELSE [regime |-> regime,
                  trends |-> trends.trends,
                  correlations |-> _calculate_correlations(u.h),
                  risk_metrics |-> risk_metrics,
                  anomalies |-> _detect_anomalies(u.h, current_data),
                  leading_indicators |-> _analyze_leading_indicators(current_data)]]

(***************************************************************************)
(* Stores and snapshots for the analysis.                                  *)
(***************************************************************************)
MaxAnalysisAppends == 2

\* a store with the given series; a key without points is absent
AnalysisStore(spx, us10y, dxy) ==
    LET series == [a \in {"SPX", "US10Y", "DXY"} |->
                      IF a = "SPX" THEN spx ELSE IF a = "US10Y" THEN us10y ELSE dxy]
    IN  [a \in {x \in DOMAIN series : series[x] # <<>>} |-> series[a]]

IndicesOk ==
    Item("indices", Item("VIX", PricePoint("^VIX", 10))
                    \o Item("SPX", [symbol |-> "SPX", price |-> 3, change |-> 6, volume |-> 3]))

RatesAndFx ==
    Item("rates", Item("US10Y", PricePoint("US10Y", 4)))
    \o Item("fx", Item("DXY", [symbol |-> "DXY", price |-> 2, change |-> 2]))

BondsClass ==
    Item("bonds", Item("rates", [US10Y |-> [price |-> 4], US2Y |-> [price |-> 2]]))

\* what the collectors produce, and snapshots with a missing or malformed field
AnalysisSnapshots ==
    {<<>>, IndicesOk, RatesAndFx, IndicesOk \o RatesAndFx,
     RatesAndFx \o BondsClass, IndicesOk \o RatesAndFx \o BondsClass,
     Item("indices", Item("SPX", [price |-> 1])),
     Item("indices", Item("VIX", [scalar |-> 20]) \o Item("SPX", PricePoint("SPX", 3))),
     Item("indices", Item("VIX", PricePoint("^VIX", 40)))
        \o Item("credit_spreads", Item("high_yield", [scalar |-> 2]))}

\* the snapshots handed over as historical_data: none, bond rates, an entry
\* without a price, and the bond collector's rates next to its spreads
AnalysisUpdateSnapshots ==
    {<<>>, Item("rates", Item("US10Y", [symbol |-> "^TNX"]))}
    \cup {Item("rates", Item("US10Y", PricePoint("^TNX", p))) : p \in 1..MaxPrice}
    \cup {Item("rates", Item("US10Y", PricePoint("^TNX", p)))
            \o Item("spreads", Item("2s10s", [scalar |-> 1])) : p \in 1..MaxPrice}

InitAnalysis ==
    /\ lookback_days = DefaultLookback
    /\ \E spx \in {<<>>, Run(2, MinHistory - 1), Run(1, 10) \o Run(2, 10)},
          us10y \in {<<>>, Run(2, MinHistory - 1), Run(1, 5) \o Run(2, 15)},
          dxy \in {<<>>, Run(2, MinHistory - 1), Run(2, MinHistory)} :
          historical_data = AnalysisStore(spx, us10y, dxy)
    /\ appended = EmptyDict
    /\ op = "init"
    /\ arg = <<>>
    /\ raised = FALSE
    /\ out = [none |-> TRUE]
    /\ prev = [op |-> "none"]
    /\ MonitorNotStarted

UpdateAnalysisStore == Update(AnalysisUpdateSnapshots, MaxAnalysisAppends)

AnalyzeMarketConditions ==
    \E current_data \in AnalysisSnapshots, new_data \in AnalysisUpdateSnapshots :
        /\ op \in {"init", "update"}
        /\ TotalAppended + AppendsOf(new_data) <= MaxAnalysisAppends
        /\ LET r == analyze_market_conditions(historical_data, appended, current_data,
                                              new_data, lookback_days)
           IN  /\ historical_data' = r.h
               /\ appended' = r.log
               /\ out' = r.result
               /\ raised' = ("exception" \in DOMAIN r.result)
        /\ op' = "analyze"
        /\ arg' = [current_data |-> current_data, historical_data |-> new_data]
        /\ prev' = Previous
        /\ UNCHANGED monitorVars
        /\ UNCHANGED lookback_days

\* one call of a method of the analysis that is not the update step
Method(name, snapshot, result) ==
    /\ op \in {"init", "update"}
    /\ op' = name
    /\ arg' = snapshot
    /\ raised' = ("exception" \in DOMAIN result)
    /\ out' = result
    /\ prev' = Previous
    /\ UNCHANGED monitorVars
    /\ UNCHANGED <<lookback_days, historical_data, appended>>

ClassifyRegime ==
    \E s \in AnalysisSnapshots :
        Method("market_regime", s, _determine_market_regime(historical_data, s))

AnalyzeTrends ==
    \E s \in AnalysisSnapshots : Method("trends", s, _analyze_trends(historical_data, s))

CalculateCorrelations ==
    Method("correlations", <<>>, [matrix |-> _calculate_correlations(historical_data)])

AnalyzeCorrelationRegime ==
    Method("correlation_regime", <<>>,
           [label |-> _analyze_correlation_regime(historical_data)])

CalculateRiskMetrics ==
    \E s \in AnalysisSnapshots :
        Method("risk_metrics", s, _calculate_risk_metrics(historical_data, s))

CalculateVolatilities ==
    \E s \in AnalysisSnapshots :
        Method("volatilities", s,
               [rate_volatility |-> _calculate_rate_volatility(historical_data, s),
                currency_volatility |-> _calculate_currency_volatility(historical_data, s)])

\* the detector keeps the current price of every entry in the stored series
DetectAnomalies_extendsHistory ==
    \E s \in AnalysisSnapshots :
        /\ op \in {"init", "update"}
        /\ op' = "anomalies"
        /\ arg' = s
        /\ raised' = FALSE
        /\ out' = [anomalies |-> _detect_anomalies(historical_data, s)]
        /\ prev' = Previous
        /\ UNCHANGED monitorVars
        /\ historical_data' =
              [a \in DOMAIN historical_data |->
                  LET items == {i \in 1..Len(Entries(s)) :
                                   /\ IsMapping(Entries(s)[i].v)
                                   /\ "symbol" \in DOMAIN Entries(s)[i].v
                                   /\ "price" \in DOMAIN Entries(s)[i].v
                                   /\ Entries(s)[i].v.symbol = a}
                  IN  IF items = {} THEN historical_data[a]
                      ELSE Append(historical_data[a],
                                  Entries(s)[CHOOSE i \in items : TRUE].v.price)]
        /\ UNCHANGED <<lookback_days, appended>>

DetectAnomalies ==
    \E s \in AnalysisSnapshots :
        Method("anomalies", s, [anomalies |-> _detect_anomalies(historical_data, s)])

AnalyzeLeadingIndicators ==
    \E s \in AnalysisSnapshots :
        Method("leading_indicators", s, _analyze_leading_indicators(s))

NextAnalysis ==
    \/ UpdateAnalysisStore
    \/ AnalyzeMarketConditions
    \/ ClassifyRegime
    \/ AnalyzeTrends
    \/ CalculateCorrelations
    \/ AnalyzeCorrelationRegime
    \/ CalculateRiskMetrics
    \/ CalculateVolatilities
    \/ DetectAnomalies
    \/ AnalyzeLeadingIndicators

SpecAnalysis == InitAnalysis /\ [][NextAnalysis]_vars

\* how many prices the update step has appended under a key so far
AppendedCount(log, a) == IF a \in DOMAIN log THEN Len(log[a]) ELSE 0

\* the entries of a snapshot that are stored under the key a
EntriesUnder(d, a) == SelectSeq(Flatten(d), LAMBDA x : x.k = a)

\* the asset names of a snapshot
AssetsOf(d) == {Flatten(d)[i].k : i \in 1..Len(Flatten(d))}

\* C29: a call of analyze_market_conditions appends exactly one price for
\* every (asset class, asset) entry of its historical_data argument, and
\* nothing else: an asset that is only in current_data gains no point.
C29_OnePointPerEntry ==
    [][op' = "analyze" =>
          \A a \in AssetsOf(arg'.historical_data) \cup AssetsOf(arg'.current_data)
                    \cup DOMAIN appended' :
             AppendedCount(appended', a)
                = AppendedCount(appended, a) + Len(EntriesUnder(arg'.historical_data, a))
      ]_vars

(***************************************************************************)
(* The key of the store and the key of the lookups.                        *)
(*                                                                         *)
(* MarketDataCollector names its entries by asset ('SPX') and gives each   *)
(* the ticker as 'symbol' ('^GSPC'): the update step stores under the      *)
(* former, the trend and the price anomalies look up under the latter.     *)
(***************************************************************************)
\* the index under its asset name, with the ticker or the name as symbol
SymbolSnapshots ==
    {Item("indices", Item("SPX", [symbol |-> sym, price |-> p, change |-> c])) :
        sym \in {"SPX", "^GSPC"}, p \in {1, MaxLevel}, c \in {0, 6, 30}}

DetectSymbolAnomalies ==
    \E s \in SymbolSnapshots :
        Detect("price_anomalies", s, _detect_price_anomalies(historical_data, s))

NextSymbol ==
    \/ UpdateTrendStore
    \/ CalculateTrend
    \/ DetectSymbolAnomalies

SpecSymbol == InitTrend /\ [][NextSymbol]_vars

\* C28: the store is keyed by the asset name, the lookups by the entry's
\* 'symbol': for an entry whose symbol is no key of the store, after any
\* number of updates of its asset, the trend is insufficient_data and no
\* price_zscore or price_move anomaly is reported.
C28_SymbolWithoutHistory ==
    /\ (/\ op = "trend" /\ IsMapping(arg) /\ "symbol" \in DOMAIN arg
         /\ arg.symbol \notin DOMAIN historical_data)
          => out.trend = "insufficient_data"
    /\ op = "price_anomalies" =>
          \A i \in 1..Len(Entries(arg)) :
             LET item == Entries(arg)[i]
             IN  (/\ IsMapping(item.v) /\ "symbol" \in DOMAIN item.v
                  /\ item.v.symbol \notin DOMAIN historical_data)
                    => \A j \in 1..Len(out.anomalies) :
                          out.anomalies[j].asset # AssetName(item)

\* the index was updated under 'SPX' and has its 20 points there; its entry
\* carries the ticker and a move of 30 percent, and nothing is reported
C28_Witness ==
    /\ op = "price_anomalies"
    /\ "SPX" \in DOMAIN appended /\ Len(appended["SPX"]) >= 1
    /\ "SPX" \in DOMAIN historical_data /\ Len(historical_data["SPX"]) >= 20
    /\ "^GSPC" \notin DOMAIN historical_data
    /\ Entries(arg)[1].v.symbol = "^GSPC" /\ Entries(arg)[1].v.change = 30
    /\ out.anomalies = <<>>

(***************************************************************************)
(* What the analysis promises its caller.                                  *)
(***************************************************************************)
\* C13: analyze_market_conditions never raises to its caller, whatever the
\* current snapshot and the historical snapshot are, entries with a missing
\* 'price' or 'symbol' and entries that are not mappings included.
C13_AnalysisNeverRaises ==
    op = "analyze" => (~raised /\ "exception" \notin DOMAIN out)

\* every stored series has fewer than 20 points (the empty store included)
ShortHistory == \A a \in DOMAIN historical_data : Len(historical_data[a]) < 20

\* C17: with fewer than 20 points in every stored series the correlation
\* matrix is empty, the correlation regime is one fixed label and the call
\* does not raise, the average correlation, the risk dispersion and the tail
\* risk are 0.0, and the rate and the currency volatility are None.
C17_ShortHistoryDefaults ==
    ShortHistory =>
        /\ op = "correlations" => out.matrix = {}
        /\ op = "correlation_regime" => (out.label = "choppy" /\ ~raised)
        /\ (op = "risk_metrics" /\ ~raised) =>
              /\ out.cross_asset_correlation = "0.0"
              /\ out.risk_dispersion = "0.0"
              /\ out.tail_risk = "0.0"
        /\ op = "volatilities" =>
              (out.rate_volatility = "None" /\ out.currency_volatility = "None")

\* 19 points stored for the 10-year yield and for the dollar index, and a
\* snapshot with rates, bonds and currencies
C17_Witness ==
    /\ op = "volatilities"
    /\ ShortHistory
    /\ "US10Y" \in DOMAIN historical_data /\ Len(historical_data["US10Y"]) = 19
    /\ "DXY" \in DOMAIN historical_data /\ Len(historical_data["DXY"]) = 19
    /\ HasKey(arg, "bonds") /\ HasKey(arg, "fx")
    /\ out.rate_volatility = "None"

\* C18: only the update step changes the store: the market regime, the
\* trends, the correlations, the risk metrics, the anomalies and the leading
\* indicators leave every key and every series as they were.
C18_StoreOnlyUpdated ==
    [][op' \in {"market_regime", "trends", "correlations", "correlation_regime",
                "risk_metrics", "volatilities", "anomalies", "leading_indicators"}
          => historical_data' = historical_data]_vars

\* anomalies were detected for an entry whose symbol has 20 stored points
C18_Witness ==
    /\ op = "anomalies"
    /\ "SPX" \in DOMAIN historical_data /\ Len(historical_data["SPX"]) = 20
    /\ out.anomalies # <<>>
    /\ HasSpx(arg)

(***************************************************************************)
(* MarketMonitor.run: the polling loop (src/main.py)                       *)
(*                                                                         *)
(* One action per awaited call of the loop body.  A call either raises an  *)
(* Exception that reaches run, or runs to its end; a collection inside it  *)
(* takes some time and records its update unless it fails inside the       *)
(* call's own try block.  The clock is New York time in seconds since      *)
(* Monday 00:00; the lists of daily events are the payload of the e-mail   *)
(* and are not read by the loop.                                           *)
(***************************************************************************)
MaxIterations == 5

SleepSeconds == 60
BackoffSeconds == 60
SecondsPerDay == 86400
\* time(9, 30), time(16, 0) and time(16, 30)
MarketOpenTime == 34200
MarketCloseTime == 57600
DailyUpdateTime == 59400
\* New York is five hours behind UTC
UtcOffset == 18000

\* COLLECTION_CONFIG['update_frequency']
UpdateFrequency == [market_data |-> 300, economic_data |-> 3600, fed_speeches |-> 3600]

engineVars == <<lookback_days, historical_data, appended, op, arg, raised, out, prev>>

\* elapsed > frequency: an update that is exactly one period old is not due
_should_update_strict(data_type) ==
    \/ data_type \notin DOMAIN last_updates
    \/ now - last_updates[data_type] > UpdateFrequency[data_type]

_should_update_everyIteration(data_type) ==
    \/ data_type \notin DOMAIN last_updates
    \/ now - last_updates[data_type] >= SleepSeconds

_should_update(data_type) ==
    \/ data_type \notin DOMAIN last_updates
    \/ now - last_updates[data_type] >= UpdateFrequency[data_type]

\* now.weekday() < 5
IsWeekday(t) == (t \div SecondsPerDay) % 7 < 5

TimeOfDay(t) == t % SecondsPerDay

\* the date in UTC, as a day number
UtcDate(t) == (t + UtcOffset) \div SecondsPerDay

_sent_daily_update_today ==
    /\ "daily_update" \in DOMAIN last_updates
    /\ UtcDate(last_updates["daily_update"]) = UtcDate(now)

\* how long a collection can take: market data awaits two collectors and the
\* analysis, the other collections are taken as instantaneous
Durations(data_type) == IF data_type = "market_data" THEN {0, 30} ELSE {0}

\* Monday 09:30, 15:57 and 16:28, and Saturday 10:00
StartTimes == {34200, 57420, 59280, 468000}

\* last_updates after construction, and after an hour of running in which
\* the releases and the speeches were collected
StartUpdates(t) ==
    {[k \in {} |-> 0],
     [economic_data |-> t - 3480, fed_speeches |-> t - 3540]}

InitLoop ==
    /\ lookback_days = DefaultLookback
    /\ historical_data = EmptyDict
    /\ appended = EmptyDict
    /\ op = "init"
    /\ arg = <<>>
    /\ raised = FALSE
    /\ out = [none |-> TRUE]
    /\ prev = [op |-> "none"]
    /\ pc = "check_market_hours"
    /\ now \in StartTimes
    /\ last_updates \in StartUpdates(now)
    /\ iteration = 0
    /\ event = [name |-> "none"]
    /\ recorded_start = [k \in {} |-> 0]
    /\ ServicesNotStarted

\* the exception leaves run: the process ends
Caught_propagates(name) ==
    /\ pc' = "terminated"
    /\ event' = [name |-> name, raised |-> TRUE, collected |-> FALSE, recorded |-> FALSE]
    /\ UNCHANGED <<now, last_updates, iteration, recorded_start>>

\* except Exception in run: the error is logged and the loop backs off
Caught(name) ==
    /\ pc' = "backoff"
    /\ event' = [name |-> name, raised |-> TRUE, collected |-> FALSE, recorded |-> FALSE]
    /\ UNCHANGED <<now, last_updates, iteration, recorded_start>>

\* a call that collects data_type when it is due, and goes on to next
Collect(name, data_type, due, next) ==
    /\ pc' = next
    /\ IF due
       THEN \E d \in Durations(data_type), recorded \in BOOLEAN :
               /\ now' = now + d
               /\ last_updates' = IF recorded
                                  THEN (data_type :> now') @@ last_updates
                                  ELSE last_updates
               /\ recorded_start' = IF recorded
                                    THEN (data_type :> now) @@ recorded_start
                                    ELSE recorded_start
               /\ event' = [name |-> name, raised |-> FALSE, collected |-> TRUE,
                            recorded |-> recorded]
       ELSE /\ UNCHANGED <<now, last_updates, recorded_start>>
            /\ event' = [name |-> name, raised |-> FALSE, collected |-> FALSE,
                         recorded |-> FALSE]
    /\ UNCHANGED iteration

CheckMarketHours ==
    /\ pc = "check_market_hours"
    /\ \/ Caught("check_market_hours")
       \/ Collect("check_market_hours", "market_data",
                  /\ IsWeekday(now)
                  /\ MarketOpenTime <= TimeOfDay(now)
                  /\ TimeOfDay(now) <= MarketCloseTime
                  /\ _should_update("market_data"),
                  "check_economic_releases")
    /\ UNCHANGED <<engineVars, serviceVars>>

CheckEconomicReleases ==
    /\ pc = "check_economic_releases"
    /\ \/ Caught("check_economic_releases")
       \/ Collect("check_economic_releases", "economic_data",
                  _should_update("economic_data"), "check_fed_communications")
    /\ UNCHANGED <<engineVars, serviceVars>>

CheckFedCommunications ==
    /\ pc = "check_fed_communications"
    /\ \/ Caught("check_fed_communications")
       \/ Collect("check_fed_communications", "fed_speeches",
                  _should_update("fed_speeches"), "send_daily_update")
    /\ UNCHANGED <<engineVars, serviceVars>>

SendDailyUpdate ==
    /\ pc = "send_daily_update"
    /\ \/ Caught("send_daily_update")
       \/ Collect("send_daily_update", "daily_update",
                  /\ IsWeekday(now)
                  /\ TimeOfDay(now) >= DailyUpdateTime
                  /\ ~_sent_daily_update_today,
                  "sleep")
    /\ UNCHANGED <<engineVars, serviceVars>>

\* asyncio.sleep(60) at the end of the body, then the next iteration
Sleep ==
    /\ pc = "sleep"
    /\ iteration < MaxIterations
    /\ now' = now + SleepSeconds
    /\ pc' = "check_market_hours"
    /\ iteration' = iteration + 1
    /\ event' = [name |-> "sleep", raised |-> FALSE, collected |-> FALSE, recorded |-> FALSE]
    /\ UNCHANGED <<last_updates, recorded_start>>
    /\ UNCHANGED <<engineVars, serviceVars>>

\* asyncio.sleep(60) in the except clause, then the next iteration
Backoff ==
    /\ pc = "backoff"
    /\ iteration < MaxIterations
    /\ now' = now + BackoffSeconds
    /\ pc' = "check_market_hours"
    /\ iteration' = iteration + 1
    /\ event' = [name |-> "backoff", raised |-> FALSE, collected |-> FALSE, recorded |-> FALSE]
    /\ UNCHANGED <<last_updates, recorded_start>>
    /\ UNCHANGED <<engineVars, serviceVars>>

NextLoop ==
    \/ CheckMarketHours
    \/ CheckEconomicReleases
    \/ CheckFedCommunications
    \/ SendDailyUpdate
    \/ Sleep
    \/ Backoff

SpecLoop == InitLoop /\ [][NextLoop]_vars

\* the event loop runs the coroutine whenever it can take a step, and every
\* awaited call returns or raises
SpecLoopFair == SpecLoop /\ WF_vars(NextLoop)

(***************************************************************************)
(* The loop and its cadences.                                              *)
(***************************************************************************)
\* C19: an Exception raised by one of the four calls of the body is caught:
\* the loop sleeps the 60-second backoff and starts the next iteration, it
\* never ends, and every iteration is eventually followed by a next one.
C19_LoopSurvivesErrors ==
    /\ [](pc \in {"check_market_hours", "check_economic_releases",
                  "check_fed_communications", "send_daily_update", "sleep", "backoff"})
    /\ [][event'.raised => pc' = "backoff"]_vars
    /\ [][pc = "backoff" =>
            (pc' = "check_market_hours" /\ now' = now + 60 /\ iteration' = iteration + 1)]_vars
    /\ \A i \in 0..(MaxIterations - 1) : (iteration = i) ~> (iteration = i + 1)

\* a call raised, the loop backed off and is about to make the first call of
\* the next iteration
C19_Witness ==
    /\ pc = "check_market_hours"
    /\ event.name = "backoff"
    /\ iteration >= 1

\* the data type a call of the body collects
CollectedBy(name) ==
    IF name = "check_market_hours" THEN "market_data"
    ELSE IF name = "check_economic_releases" THEN "economic_data"
    ELSE "fed_speeches"

\* C20: a call of the body starts the collection of its data type iff the
\* type has no recorded last update or at least 300 / 3600 / 3600 seconds
\* have passed since it (market data only on a New York weekday between 09:30
\* and 16:00); two collections that recorded their update never start less
\* than that many seconds apart.
C20_CollectionCadence ==
    [][(/\ pc \in {"check_market_hours", "check_economic_releases",
                   "check_fed_communications"}
        /\ ~event'.raised) =>
          LET data_type == CollectedBy(pc)
              frequency == IF data_type = "market_data" THEN 300 ELSE 3600
              elapsed == data_type \notin DOMAIN last_updates
                            \/ now - last_updates[data_type] >= frequency
              open == (now \div 86400) % 7 < 5
                        /\ now % 86400 >= 34200 /\ now % 86400 <= 57600
              due == elapsed /\ (data_type = "market_data" => open)
          IN  /\ event'.collected <=> due
              /\ (event'.collected /\ event'.recorded
                    /\ data_type \in DOMAIN recorded_start) =>
                    now - recorded_start[data_type] >= frequency
      ]_vars

\* Monday 09:35: market data is collected again, 300 seconds after the
\* collection at the opening of 09:30
C20_Witness ==
    /\ event.name = "check_market_hours" /\ event.collected /\ event.recorded
    /\ pc = "check_economic_releases"
    /\ iteration = 5
    /\ recorded_start["market_data"] = 34500
    /\ last_updates["market_data"] = 34500

(***************************************************************************)
(* BaseCollector.execute_collection (src/collectors/base.py)               *)
(*                                                                         *)
(* collect and validate_data are abstract: what a subclass makes of them   *)
(* is an input.  collect raises, returns a CollectorResponse, or returns   *)
(* something that is no CollectorResponse (None); validate_data, which is  *)
(* awaited only for a response that reports success, returns True or       *)
(* False or raises.  A response is the record of its success, data and     *)
(* error fields.                                                           *)
(***************************************************************************)
MaxErrors == 3
RecentErrors == 5

\* CollectorResponse(success, data, error)
CollectorResponse(success, data, error) ==
    [success |-> success, data |-> data, error |-> error]

\* what collect does
CollectOutcomes ==
    {[raises |-> TRUE, message |-> m] : m \in {"", "timeout"}}
    \cup {[raises |-> FALSE, response |-> CollectorResponse(TRUE, d, "None")] :
              d \in {"None", "rows"}}
    \cup {[raises |-> FALSE, response |-> CollectorResponse(FALSE, "None", e)] :
              e \in {"None", "HTTP 500"}}
    \cup {[raises |-> FALSE, response |-> [none |-> TRUE]]}

\* what validate_data does
ValidateOutcomes ==
    {[raises |-> FALSE, valid |-> TRUE], [raises |-> FALSE, valid |-> FALSE],
     [raises |-> TRUE, message |-> "bad schema"]}

\* str(e) of the exception that reaches the except clause, if any
CollectionException(collected, validated) ==
    IF collected.raises THEN [raised |-> TRUE, message |-> collected.message]
    ELSE IF "success" \notin DOMAIN collected.response
    THEN [raised |-> TRUE, message |-> "'NoneType' object has no attribute 'success'"]
    ELSE IF collected.response.success /\ validated.raises
    THEN [raised |-> TRUE, message |-> validated.message]
    ELSE [raised |-> FALSE]

\* the validation is awaited outside the try block: its exception leaves the
\* method
execute_collection_validatesOutsideTry(errors, at, collected, validated) ==
    LET e == CollectionException(collected, validated)
    IN  IF e.raised /\ ~collected.raises /\ "success" \in DOMAIN collected.response
        THEN [exception |-> e.message, errors |-> errors]
        ELSE IF e.raised
        THEN [response |-> CollectorResponse(FALSE, "None", "Collection failed: " \o e.message),
              errors |-> Append(errors, [timestamp |-> at,
                                         error |-> "Collection failed: " \o e.message])]
        ELSE [response |->
                 IF collected.response.success /\ ~validated.valid
                 THEN CollectorResponse(FALSE, collected.response.data, "Data validation failed")
                 ELSE collected.response,
              errors |-> errors]

\* the response returned and collection_errors after the call
execute_collection(errors, at, collected, validated) ==
    LET e == CollectionException(collected, validated)
    IN  IF e.raised
        THEN [response |-> CollectorResponse(FALSE, "None", "Collection failed: " \o e.message),
              errors |-> Append(errors, [timestamp |-> at,
                                         error |-> "Collection failed: " \o e.message])]
        ELSE [response |->
                 IF collected.response.success /\ ~validated.valid
                 THEN CollectorResponse(FALSE, collected.response.data, "Data validation failed")
                 ELSE collected.response,
              errors |-> errors]

get_collection_status ==
    [last_collection |-> last_collection_time,
     recent_errors |-> PySliceLast(collection_errors, RecentErrors),
     total_errors |-> Len(collection_errors)]

InitCollector ==
    /\ lookback_days = DefaultLookback
    /\ historical_data = EmptyDict
    /\ appended = EmptyDict
    /\ op = "init"
    /\ arg = <<>>
    /\ raised = FALSE
    /\ out = [none |-> TRUE]
    /\ prev = [op |-> "none"]
    /\ MonitorNotStarted

ExecuteCollection ==
    \E collected \in CollectOutcomes, validated \in ValidateOutcomes :
        /\ Len(collection_errors) < MaxErrors
        /\ LET r == execute_collection(collection_errors, now, collected, validated)
           IN  /\ collection_errors' = r.errors
               /\ raised' = ("exception" \in DOMAIN r)
               /\ out' = IF "exception" \in DOMAIN r THEN [exception |-> r.exception]
                         ELSE r.response
        /\ last_collection_time' = [at |-> now]
        /\ op' = "execute_collection"
        /\ arg' = [collected |-> collected, validated |-> validated]
        /\ prev' = Previous
        /\ UNCHANGED <<pc, now, last_updates, iteration, event, recorded_start>>
        /\ UNCHANGED <<daily_events, stored, sent, outcomes>>
        /\ UNCHANGED <<lookback_days, historical_data, appended>>

GetCollectionStatus ==
    /\ op = "execute_collection"
    /\ op' = "get_collection_status"
    /\ arg' = <<>>
    /\ raised' = FALSE
    /\ out' = get_collection_status
    /\ prev' = Previous
    /\ UNCHANGED monitorVars
    /\ UNCHANGED <<lookback_days, historical_data, appended>>

NextCollector == ExecuteCollection \/ GetCollectionStatus

SpecCollector == InitCollector /\ [][NextCollector]_vars

\* collect reported success and the validation was awaited
Validated(a) ==
    /\ ~a.collected.raises
    /\ "success" \in DOMAIN a.collected.response
    /\ a.collected.response.success

\* C21: execute_collection never raises.  If collect or validate_data
\* raises, it returns a response with success False and a non-empty error
\* and appends exactly one entry to collection_errors; if collect reports
\* success and validate_data returns False, the response has success False
\* and the error 'Data validation failed'; a response with success True is
\* returned only when collect succeeded and the validation passed.
C21_CollectionNeverRaises ==
    [][op' = "execute_collection" =>
          LET a == arg'
              failed == a.collected.raises \/ (Validated(a) /\ a.validated.raises)
          IN  /\ ~raised' /\ "success" \in DOMAIN out'
              /\ failed =>
                    /\ out'.success = FALSE
                    /\ out'.error \notin {"", "None"}
                    /\ Len(collection_errors') = Len(collection_errors) + 1
                    /\ SubSeq(collection_errors', 1, Len(collection_errors))
                          = collection_errors
              /\ (Validated(a) /\ ~a.validated.raises /\ ~a.validated.valid) =>
                    (out'.success = FALSE /\ out'.error = "Data validation failed")
              /\ out'.success = TRUE =>
                    (Validated(a) /\ ~a.validated.raises /\ a.validated.valid)
      ]_vars

\* validate_data raised on a response that reported success: the failure is
\* the second entry of collection_errors
C21_Witness ==
    /\ op = "execute_collection"
    /\ Validated(arg) /\ arg.validated.raises
    /\ out.success = FALSE /\ out.error = "Collection failed: bad schema"
    /\ Len(collection_errors) = 2
    /\ collection_errors[2].error = "Collection failed: bad schema"

(***************************************************************************)
(* MarketMonitor: what the calls of the loop body do (src/main.py)         *)
(*                                                                         *)
(* One action per call of the loop body, with the collectors' responses,   *)
(* the outcome of a commit and the outcome of the e-mail as inputs.  A     *)
(* store_* method of the DatabaseManager raises KeyError when the mapping  *)
(* it is given lacks a key it subscripts, and TypeError when it is given   *)
(* no mapping; a session that raises is rolled back and leaves no row.     *)
(* None of the four calls lets an exception out: each body is a try block, *)
(* and what runs outside it does not raise.  The clock advances during the *)
(* sleep only.                                                             *)
(***************************************************************************)
MaxCycles == 2

\* a row of the database: its table and what identifies the stored item
Row(table, key) == [table |-> table, key |-> key]

\* some key the method subscripts is not in the ordered dictionary
LacksKey(data, keys) == \E k \in keys : ~HasKey(data, k)

store_market_data(data) ==
    IF LacksKey(data, {"symbol", "asset_class", "price", "timestamp", "source"})
    THEN [raises |-> TRUE, rows |-> <<>>]
    ELSE [raises |-> FALSE, rows |-> <<Row("market_data", "snapshot")>>]

store_bond_data(data) ==
    IF LacksKey(data, {"symbol", "yield", "maturity_date", "timestamp"})
    THEN [raises |-> TRUE, rows |-> <<>>]
    ELSE [raises |-> FALSE, rows |-> <<Row("bond_data", "snapshot")>>]

store_economic_release(data) ==
    IF ~IsMapping(data)
          \/ {"indicator", "value", "previous", "timestamp", "source"} \ DOMAIN data # {}
    THEN [raises |-> TRUE, rows |-> <<>>]
    ELSE [raises |-> FALSE, rows |-> <<Row("economic_releases", data.indicator)>>]

store_fed_speech(data) ==
    IF ~IsMapping(data)
          \/ {"speaker", "role", "title", "speech_type", "content", "date", "url"}
                \ DOMAIN data # {}
    THEN [raises |-> TRUE, rows |-> <<>>]
    ELSE [raises |-> FALSE, rows |-> <<Row("fed_speeches", data.title)>>]

\* the last step that was completed is named by 'steps', the step that
\* raised by 'failed'
Outcome(steps, failed, rows) == [steps |-> steps, failed |-> failed, rows |-> rows]

\* the rest of collect_market_data once the analysis has returned or raised
AfterAnalysis(analysis, commits, rows) ==
    IF "exception" \in DOMAIN analysis.result
    THEN [h |-> analysis.h, log |-> analysis.log]
            @@ Outcome(<<"collect", "store_market_data", "store_bond_data">>,
                       "analyze", rows)
    ELSE IF ~commits
    THEN [h |-> analysis.h, log |-> analysis.log]
            @@ Outcome(<<"collect", "store_market_data", "store_bond_data", "analyze">>,
                       "store_analysis", rows)
    ELSE [h |-> analysis.h, log |-> analysis.log]
            @@ Outcome(<<"collect", "store_market_data", "store_bond_data", "analyze",
                         "store_analysis", "record">>,
                       "none", rows \o <<Row("analysis", "market")>>)

\* the snapshot handed to the analysis: the data of a collector that
\* reported success, and {} for one that did not
DataOrEmpty(response) == IF response.success THEN response.data ELSE <<>>

collect_market_data_storeFailureLogged(h, log, L, market, bond, commits) ==
    [steps |-> <<"collect", "analyze", "store_analysis", "record">>,
     failed |-> "none", rows |-> <<Row("analysis", "market")>>]
       @@ AfterAnalysis(analyze_market_conditions(h, log, DataOrEmpty(market),
                                                  DataOrEmpty(bond), L),
                        TRUE, <<>>)

\* collect_market_data after the two collectors have answered; commits says
\* whether the session of store_analysis commits
collect_market_data(h, log, L, market, bond, commits) ==
    LET kept_market == IF market.success THEN store_market_data(market.data)
                       ELSE [raises |-> FALSE, rows |-> <<>>]
        kept_bond == IF bond.success THEN store_bond_data(bond.data)
                     ELSE [raises |-> FALSE, rows |-> <<>>]
    IN  IF kept_market.raises
        THEN [h |-> h, log |-> log] @@ Outcome(<<"collect">>, "store_market_data", <<>>)
        ELSE IF kept_bond.raises
        THEN [h |-> h, log |-> log]
                @@ Outcome(<<"collect", "store_market_data">>, "store_bond_data",
                           kept_market.rows)
        ELSE AfterAnalysis(analyze_market_conditions(h, log, DataOrEmpty(market),
                                                     DataOrEmpty(bond), L),
                           commits, kept_market.rows \o kept_bond.rows)

SignificantRelease_notLow(release) == Get(release, "importance", "None") # "low"

\* release.get('importance') == 'high'
SignificantRelease(release) == Get(release, "importance", "None") = "high"

\* speech.get('importance', 'low') in ['high', 'medium']
SignificantSpeech(speech) == Get(speech, "importance", "low") \in {"high", "medium"}

\* the entry queued for a release
ReleaseEvent(at, release) ==
    [timestamp |-> at, indicator |-> release.indicator, value |-> release.value,
     previous |-> release.previous, importance |-> Get(release, "importance", "None")]

RECURSIVE ReleasesFrom(_, _, _, _, _)
\* the loop over the releases from the i-th on: each is stored, analysed and,
\* when its importance is 'high', queued
ReleasesFrom(batch, i, at, rows, queued) ==
    IF i > Len(batch) THEN [failed |-> "none", rows |-> rows, queued |-> queued]
    ELSE LET release == batch[i].item
             kept == store_economic_release(release)
         IN  IF kept.raises
             THEN [failed |-> "store_economic_release", rows |-> rows, queued |-> queued]
             ELSE IF batch[i].analysis = "raises"
             THEN [failed |-> "analyze_release", rows |-> rows \o kept.rows,
                   queued |-> queued]
             ELSE ReleasesFrom(batch, i + 1, at, rows \o kept.rows,
                               IF SignificantRelease(release)
                               THEN Append(queued, ReleaseEvent(at, release))
                               ELSE queued)

\* the entry queued for a speech
SpeechEvent(at, speech) ==
    [timestamp |-> at, speaker |-> speech.speaker, title |-> speech.title,
     importance |-> Get(speech, "importance", "low")]

RECURSIVE SpeechesFrom(_, _, _, _, _)
\* the loop over the speeches from the i-th on: each is stored, analysed and,
\* when its importance is 'high' or 'medium', queued
SpeechesFrom(batch, i, at, rows, queued) ==
    IF i > Len(batch) THEN [failed |-> "none", rows |-> rows, queued |-> queued]
    ELSE LET speech == batch[i].item
             kept == store_fed_speech(speech)
         IN  IF kept.raises
             THEN [failed |-> "store_fed_speech", rows |-> rows, queued |-> queued]
             ELSE IF batch[i].analysis = "raises"
             THEN [failed |-> "analyze_speech", rows |-> rows \o kept.rows,
                   queued |-> queued]
             ELSE SpeechesFrom(batch, i + 1, at, rows \o kept.rows,
                               IF SignificantSpeech(speech)
                               THEN Append(queued, SpeechEvent(at, speech))
                               ELSE queued)

(***************************************************************************)
(* What the collaborators hand to the monitor.                             *)
(***************************************************************************)
\* a collector's failure: its data is not read
Failure == [success |-> FALSE, data |-> <<>>]

Success(data) == [success |-> TRUE, data |-> data]

\* MarketDataCollector: a failure, or the snapshot by asset class
MarketResponses == {Failure, Success(IndicesOk)}

\* BondCollector: a failure, or its rates next to its spreads
BondResponses ==
    {Failure,
     Success(Item("rates", Item("US10Y", PricePoint("^TNX", 1)))
                \o Item("spreads", Item("2s10s", [scalar |-> 1])))}

Release(indicator, more) ==
    [indicator |-> indicator, value |-> 3, previous |-> 2, timestamp |-> 1,
     source |-> "FRED"] @@ more

\* a release with what analyze_release does with it
Analysed(item, analysis) == <<[item |-> item, analysis |-> analysis]>>

\* batches of releases: none, releases of high, medium and no importance, a
\* release whose analysis raises, a release without 'previous', and the key
\* of a dictionary where a release is expected
ReleaseBatches ==
    {<<>>,
     Analysed(Release("CPI", [importance |-> "high"]), "ok"),
     Analysed(Release("GDP", [importance |-> "medium"]), "ok")
        \o Analysed(Release("PMI", [k \in {} |-> 0]), "ok"),
     Analysed(Release("CPI", [importance |-> "high"]), "ok")
        \o Analysed(Release("NFP", [importance |-> "high"]), "raises"),
     Analysed(Release("GDP", [importance |-> "low"]), "ok")
        \o Analysed([indicator |-> "CPI", value |-> 3, importance |-> "high"], "ok"),
     Analysed([scalar |-> 0], "ok")}

EconomicResponses == {Failure} \cup {Success(b) : b \in ReleaseBatches}

Speech(title, more) ==
    [speaker |-> "Powell", role |-> "Chair", title |-> title, speech_type |-> "SPEECH",
     content |-> "text", date |-> 1, url |-> title] @@ more

\* batches of speeches: none, what the collector parses (no 'role', no
\* 'content'), and speeches with every field the store needs; the analysis
\* of a speech raises TypeError for its missing fifth argument
SpeechBatches ==
    {<<>>,
     Analysed([speaker |-> "Powell", title |-> "Outlook", date |-> 1, url |-> "Outlook",
               source |-> "speeches", full_text |-> "text", type |-> "SPEECH"], "raises"),
     Analysed(Speech("Outlook", [importance |-> "high"]), "raises"),
     Analysed(Speech("Remarks", [k \in {} |-> 0]), "raises")
        \o Analysed(Speech("Outlook", [importance |-> "medium"]), "raises")}

FedResponses == {Failure} \cup {Success(b) : b \in SpeechBatches}

\* what the e-mail does: it is sent, or composing or sending raises
EmailOutcomes == {"sent", "compose_newsletter", "send_email"}

(***************************************************************************)
(* The monitor as a state machine.                                         *)
(***************************************************************************)
\* the releases and the speeches were collected a minute before t
JustCollected(t) == [economic_data |-> t - 60, fed_speeches |-> t - 60]

\* where a run of a few cycles starts: the clock, last_updates and the
\* newsletters sent so far.  Monday 15:59, Saturday 10:00 and Monday 16:29
\* right after construction; Monday 23:58 with the releases and the speeches
\* just collected; Monday 18:59 after the newsletter of 16:30
MonitorStarts ==
    {[now |-> 57540, last_updates |-> [k \in {} |-> 0], sent |-> <<>>],
     [now |-> 86280, last_updates |-> JustCollected(86280), sent |-> <<>>],
     [now |-> 468000, last_updates |-> [k \in {} |-> 0], sent |-> <<>>],
     [now |-> 59340, last_updates |-> [k \in {} |-> 0], sent |-> <<>>],
     [now |-> 68340,
      last_updates |-> [daily_update |-> DailyUpdateTime] @@ JustCollected(68340),
      sent |-> <<[at |-> DailyUpdateTime, economic_releases |-> <<>>,
                  fed_communications |-> <<>>]>>]}

\* the calls of the loop body
Handlers ==
    {"check_market_hours", "check_economic_releases", "check_fed_communications",
     "send_daily_update"}

\* what a call of the body did: whether it started a collection (or the
\* send), whether the collector reported a failure or no data, the step
\* that raised, and the steps completed before it
Did(name, attempted, empty, failed, steps) ==
    [name |-> name, attempted |-> attempted, empty |-> empty, failed |-> failed,
     steps |-> steps, raised |-> FALSE]

Skipped(name) == Did(name, FALSE, FALSE, "none", <<>>)

InitMonitor ==
    /\ lookback_days = DefaultLookback
    /\ historical_data = EmptyDict
    /\ appended = EmptyDict
    /\ op = "init"
    /\ arg = <<>>
    /\ raised = FALSE
    /\ out = [none |-> TRUE]
    /\ prev = [op |-> "none"]
    /\ pc = "check_market_hours"
    /\ \E start \in MonitorStarts :
          /\ now = start.now
          /\ last_updates = start.last_updates
          /\ sent = start.sent
    /\ iteration = 0
    /\ event = [name |-> "none"]
    /\ recorded_start = [k \in {} |-> 0]
    /\ daily_events = NoEvents
    /\ stored = <<>>
    /\ outcomes = [name \in Handlers |-> Skipped(name)]
    /\ last_collection_time = [none |-> TRUE]
    /\ collection_errors = <<>>

\* last_updates[data_type] = datetime.now(timezone.utc)
Record(updates, data_type, at) == (data_type :> at) @@ updates

RecordUnlessRaised_always(updates, data_type, at, failed) ==
    Record(updates, data_type, at)

\* the assignment is the last statement of the try block: a call in which a
\* step raised does not reach it
RecordUnlessRaised(updates, data_type, at, failed) ==
    IF failed = "none" THEN Record(updates, data_type, at) ELSE updates

\* the call is over: what it did is the event, and the latest outcome of
\* that call
Done(did) ==
    /\ event' = did
    /\ outcomes' = [outcomes EXCEPT ![did.name] = did]

MonitorMarketHours ==
    /\ pc = "check_market_hours"
    /\ pc' = "check_economic_releases"
    /\ IF /\ IsWeekday(now)
          /\ MarketOpenTime <= TimeOfDay(now) /\ TimeOfDay(now) <= MarketCloseTime
          /\ _should_update("market_data")
       THEN \E market \in MarketResponses, bond \in BondResponses, commits \in BOOLEAN :
               \E r \in {collect_market_data(historical_data, appended, lookback_days,
                                            market, bond, commits)} :
                   /\ historical_data' = r.h
                   /\ appended' = r.log
                   /\ stored' = stored \o r.rows
                   /\ last_updates' = RecordUnlessRaised(last_updates, "market_data",
                                                         now, r.failed)
                   /\ Done(Did("check_market_hours", TRUE, ~market.success,
                               r.failed, r.steps))
       ELSE /\ UNCHANGED <<historical_data, appended, stored, last_updates>>
            /\ Done(Skipped("check_market_hours"))
    /\ UNCHANGED <<lookback_days, op, arg, raised, out, prev>>
    /\ UNCHANGED <<now, iteration, recorded_start>>
    /\ UNCHANGED <<daily_events, sent, last_collection_time, collection_errors>>

\* check_economic_releases and check_fed_communications: the batch of a
\* response that reports success and has data is walked through
Process(name, data_type, queue, responses) ==
    /\ IF _should_update(data_type)
       THEN \E response \in responses :
               IF response.success /\ response.data # <<>>
               THEN LET r == IF data_type = "economic_data"
                             THEN ReleasesFrom(response.data, 1, now, <<>>, <<>>)
                             ELSE SpeechesFrom(response.data, 1, now, <<>>, <<>>)
                    IN  /\ stored' = stored \o r.rows
                        /\ daily_events' =
                              [daily_events EXCEPT ![queue] = @ \o r.queued]
                        /\ last_updates' = RecordUnlessRaised(last_updates, data_type,
                                                              now, r.failed)
                        /\ Done(Did(name, TRUE, FALSE, r.failed,
                                    [i \in 1..Len(r.rows) |-> r.rows[i].key]))
               ELSE /\ last_updates' = Record(last_updates, data_type, now)
                    /\ Done(Did(name, TRUE, TRUE, "none", <<>>))
                    /\ UNCHANGED <<stored, daily_events>>
       ELSE /\ UNCHANGED <<stored, daily_events, last_updates>>
            /\ Done(Skipped(name))
    /\ UNCHANGED engineVars
    /\ UNCHANGED <<now, iteration, recorded_start>>
    /\ UNCHANGED <<sent, last_collection_time, collection_errors>>

MonitorEconomicReleases ==
    /\ pc = "check_economic_releases"
    /\ pc' = "check_fed_communications"
    /\ Process("check_economic_releases", "economic_data", "economic_releases",
               EconomicResponses)

MonitorFedCommunications ==
    /\ pc = "check_fed_communications"
    /\ pc' = "send_daily_update"
    /\ Process("check_fed_communications", "fed_speeches", "fed_communications",
               FedResponses)

\* the newsletter handed to the EmailNotifier
Newsletter(events, at) ==
    [at |-> at, economic_releases |-> events.economic_releases,
     fed_communications |-> events.fed_communications]

send_daily_update_recordsFirst(events, updates, at, email) ==
    [daily_events |-> IF email = "sent" THEN NoEvents ELSE events,
     last_updates |-> Record(updates, "daily_update", at),
     newsletters |-> IF email = "sent" THEN <<Newsletter(events, at)>> ELSE <<>>,
     failed |-> IF email = "sent" THEN "none" ELSE email,
     steps |-> <<"context">>]

\* the try block of send_daily_update: the context is gathered, the
\* newsletter composed and sent, and then the queue is cleared and the time
\* recorded
send_daily_update(events, updates, at, email) ==
    IF email = "sent"
    THEN [daily_events |-> NoEvents,
          last_updates |-> Record(updates, "daily_update", at),
          newsletters |-> <<Newsletter(events, at)>>,
          failed |-> "none",
          steps |-> <<"context", "compose_newsletter", "send_email", "clear", "record">>]
    ELSE [daily_events |-> events,
          last_updates |-> updates,
          newsletters |-> <<>>,
          failed |-> email,
          steps |-> IF email = "send_email" THEN <<"context", "compose_newsletter">>
                    ELSE <<"context">>]

\* the weekday and the time in New York, and no newsletter recorded today
DailyUpdateDue ==
    /\ IsWeekday(now)
    /\ TimeOfDay(now) >= DailyUpdateTime
    /\ ~_sent_daily_update_today

MonitorDailyUpdate ==
    /\ pc = "send_daily_update"
    /\ pc' = "sleep"
    /\ IF DailyUpdateDue
       THEN \E email \in EmailOutcomes :
               LET r == send_daily_update(daily_events, last_updates, now, email)
               IN  /\ sent' = sent \o r.newsletters
                   /\ daily_events' = r.daily_events
                   /\ last_updates' = r.last_updates
                   /\ Done(Did("send_daily_update", TRUE, FALSE, r.failed, r.steps))
       ELSE /\ UNCHANGED <<sent, daily_events, last_updates>>
            /\ Done(Skipped("send_daily_update"))
    /\ UNCHANGED engineVars
    /\ UNCHANGED <<now, iteration, recorded_start>>
    /\ UNCHANGED <<stored, last_collection_time, collection_errors>>

\* asyncio.sleep(60), then the next iteration
MonitorSleep ==
    /\ pc = "sleep"
    /\ iteration < MaxCycles
    /\ now' = now + SleepSeconds
    /\ pc' = "check_market_hours"
    /\ iteration' = iteration + 1
    /\ event' = Skipped("sleep")
    /\ UNCHANGED <<last_updates, recorded_start>>
    /\ UNCHANGED <<engineVars, serviceVars>>

NextMonitor ==
    \/ MonitorMarketHours
    \/ MonitorEconomicReleases
    \/ MonitorFedCommunications
    \/ MonitorDailyUpdate
    \/ MonitorSleep

SpecMonitor == InitMonitor /\ [][NextMonitor]_vars

(***************************************************************************)
(* What reaches the newsletter.                                            *)
(***************************************************************************)
Newsletters == {sent[i] : i \in 1..Len(sent)}

\* C22: every entry queued under 'economic_releases' comes from a release
\* of importance 'high' and every entry queued under 'fed_communications'
\* from a speech of importance 'high' or 'medium', in the queue and in every
\* newsletter that was sent; a release of another importance is stored and
\* not queued.
C22_OnlySignificantQueued ==
    /\ \A e \in Members(daily_events.economic_releases)
              \cup UNION {Members(n.economic_releases) : n \in Newsletters} :
          e.importance = "high"
    /\ \A e \in Members(daily_events.fed_communications)
              \cup UNION {Members(n.fed_communications) : n \in Newsletters} :
          e.importance \in {"high", "medium"}

\* a release of high importance is queued, one of medium importance is
\* stored next to it and not queued
C22_Witness ==
    /\ event.name = "check_economic_releases"
    /\ Row("economic_releases", "GDP") \in Members(stored)
    /\ Row("economic_releases", "CPI") \in Members(stored)
    /\ Len(daily_events.economic_releases) = 1
    /\ daily_events.economic_releases[1].indicator = "CPI"

(***************************************************************************)
(* One newsletter a day.                                                   *)
(***************************************************************************)
\* the date in New York, as a day number
NyDate(t) == t \div SecondsPerDay

\* C24: send_daily_update sends at most one newsletter per New York
\* calendar day: no two newsletters were sent on the same New York day.
C24_OneNewsletterPerDay ==
    \A i, j \in 1..Len(sent) :
        i # j => NyDate(sent[i].at) # NyDate(sent[j].at)

(***************************************************************************)
(* A newsletter that could not be sent.                                    *)
(***************************************************************************)
\* a step of send_daily_update
SendStep == pc = "send_daily_update" /\ pc' = "sleep"

\* the queue is cleared and last_updates['daily_update'] recorded only by a
\* call whose e-mail was sent, and a call that raised leaves both as they were
SendFrame ==
    /\ (daily_events' # daily_events \/ last_updates' # last_updates)
          => /\ event'.failed = "none"
             /\ "send_email" \in Members(event'.steps)
             /\ sent' = Append(sent, Newsletter(daily_events, now))
    /\ event'.failed # "none"
          => /\ daily_events' = daily_events
             /\ last_updates' = last_updates
             /\ sent' = sent

\* the call of the iteration before raised
SendFailedBefore == outcomes["send_daily_update"].failed # "none"

\* C25 as stated: the queue is cleared and last_updates['daily_update']
\* recorded only after the e-mail was sent; a call that raised leaves both
\* unchanged, and the send is attempted again on the next loop iteration.
C25_RetriedNextIteration ==
    [][SendStep => /\ SendFrame
                   /\ SendFailedBefore => event'.attempted]_vars

\* C25: the queue is cleared and last_updates['daily_update'] recorded only
\* after the e-mail was sent; a call that raised leaves both unchanged, and
\* the send is attempted again on the next loop iteration that falls on a
\* weekday at or after 16:30 New York time.
C25_RetriedWhileAfterClose ==
    [][SendStep => /\ SendFrame
                   /\ (SendFailedBefore /\ IsWeekday(now)
                          /\ TimeOfDay(now) >= DailyUpdateTime)
                         => event'.attempted]_vars

\* the release queued at 16:29 is in the newsletter of 16:31, the send of
\* 16:30 having raised
C25_Witness ==
    /\ Len(sent) = 1
    /\ sent[1].at = DailyUpdateTime + SleepSeconds
    /\ sent[1].economic_releases # <<>>
    /\ sent[1].economic_releases[1].timestamp = DailyUpdateTime - SleepSeconds
    /\ "daily_update" \in DOMAIN last_updates
    /\ last_updates["daily_update"] = DailyUpdateTime + SleepSeconds
    /\ daily_events = NoEvents

(***************************************************************************)
(* Market data that could not be collected.                                *)
(***************************************************************************)
\* the steps of collect_market_data, in their order
MarketSteps ==
    <<"collect", "store_market_data", "store_bond_data", "analyze", "store_analysis",
      "record">>

\* a step of check_market_hours
MarketStep == pc = "check_market_hours" /\ pc' = "check_economic_releases"

MarketOpen ==
    /\ IsWeekday(now)
    /\ MarketOpenTime <= TimeOfDay(now)
    /\ TimeOfDay(now) <= MarketCloseTime

\* C26: last_updates['market_data'] is recorded only by a call in which the
\* collection, the two stores, the analysis and the store of the analysis
\* completed in that order; a call in which a step raised made the steps
\* before it and none after it (a failed store leaves the history of the
\* analyzer and the analysis table alone), leaves last_updates unchanged,
\* and is followed by a new collection on the next iteration inside market
\* hours.
C26_RecordedOnlyAfterAllSteps ==
    [][MarketStep =>
         /\ last_updates' # last_updates
               => event'.failed = "none" /\ event'.steps = MarketSteps
         /\ event'.failed # "none"
               => /\ last_updates' = last_updates
                  /\ Len(event'.steps) < Len(MarketSteps)
                  /\ event'.steps = SubSeq(MarketSteps, 1, Len(event'.steps))
                  /\ event'.failed = MarketSteps[Len(event'.steps) + 1]
                  /\ Row("analysis", "market") \notin Members(stored') \ Members(stored)
                  /\ event'.failed \in {"store_market_data", "store_bond_data"}
                        => historical_data' = historical_data
                  /\ ~event'.raised
         /\ (outcomes["check_market_hours"].failed # "none" /\ MarketOpen)
               => event'.attempted]_vars

\* at 16:00 the collection is attempted again, the one of 15:59 having
\* failed in store_market_data; it fails again and nothing is recorded
C26_Witness ==
    /\ iteration = 1
    /\ now = MarketCloseTime
    /\ event.name = "check_market_hours"
    /\ event.attempted
    /\ event.failed = "store_market_data"
    /\ event.steps = <<"collect">>
    /\ "market_data" \notin DOMAIN last_updates
    /\ stored = <<>>

(***************************************************************************)
(* A batch of releases or speeches that could not be processed.            *)
(***************************************************************************)
\* a step of check_economic_releases or of check_fed_communications
BatchStep(name) == pc = name /\ pc' # name

\* the rows of a table
RowsOf(table) == {i \in 1..Len(stored) : stored[i].table = table}

BatchRaised(name) ==
    BatchStep(name) =>
      /\ event'.failed # "none"
            => /\ last_updates' = last_updates
               /\ Len(stored') = Len(stored) + Len(event'.steps)
      /\ SubSeq(stored', 1, Len(stored)) = stored
      /\ outcomes[name].failed # "none" => event'.attempted

\* C27: when storing or analysing an item of a batch raises in
\* check_fed_communications or check_economic_releases, last_updates is not
\* advanced, the items stored before it stay stored, and the next iteration
\* collects again.
C27_RaisedBatchCollectedAgain ==
    [][BatchRaised("check_fed_communications")
         /\ BatchRaised("check_economic_releases")]_vars

\* the same speech and the same release are stored twice within two
\* minutes, the first processing of each batch having raised
C27_Witness ==
    /\ iteration = 1
    /\ pc = "send_daily_update"
    /\ \E i, j \in RowsOf("fed_speeches") : i < j /\ stored[i] = stored[j]
    /\ \E i, j \in RowsOf("economic_releases") : i < j /\ stored[i] = stored[j]
    /\ "fed_speeches" \notin DOMAIN last_updates
    /\ "economic_data" \notin DOMAIN last_updates

(***************************************************************************)
(* A collection that fails without raising.                                *)
(***************************************************************************)
\* the data type a call of the loop body collects
DataType ==
    [check_market_hours |-> "market_data", check_economic_releases |-> "economic_data",
     check_fed_communications |-> "fed_speeches"]

\* the collector reported a failure or no data and nothing raised
FailedQuietly(did) == did.attempted /\ did.empty /\ did.failed = "none"

\* a quiet failure records the time (for market data after the analysis of
\* the empty snapshot), and the call after it starts no collection before
\* the update frequency has elapsed
NotRetriedEarly(name) ==
    /\ FailedQuietly(event')
          => /\ DataType[name] \in DOMAIN last_updates'
             /\ last_updates'[DataType[name]] = now
             /\ name = "check_market_hours"
                   => /\ "analyze" \in Members(event'.steps)
                      /\ Row("analysis", "market") = stored'[Len(stored')]
    /\ (FailedQuietly(outcomes[name]) /\ event'.attempted)
          => now - last_updates[DataType[name]] >= UpdateFrequency[DataType[name]]

Raised(name) == outcomes[name].failed # "none"

\* C30 as stated: a collection that fails without raising records
\* last_updates and is not attempted again before the update frequency has
\* elapsed, whereas a collection that raised is attempted again on the next
\* iteration.
C30_RaisedRetriedNextIteration ==
    [][\A name \in DOMAIN DataType :
          BatchStep(name) => /\ NotRetriedEarly(name)
                             /\ Raised(name) => event'.attempted]_vars

\* C30: a collection that fails without raising records last_updates and is
\* not attempted again before the update frequency has elapsed, whereas a
\* collection that raised is attempted again on the next iteration, for
\* market data on the next iteration inside market hours.
C30_RaisedRetriedWhenOpen ==
    [][\A name \in DOMAIN DataType :
          BatchStep(name)
            => /\ NotRetriedEarly(name)
               /\ (Raised(name) /\ (name = "check_market_hours" => MarketOpen))
                     => event'.attempted]_vars

\* at 16:00: both market collectors failed at 15:59, the analysis of the
\* empty snapshot was stored and the time recorded, and so were the times
\* of the failed collections of releases and speeches; none of the three
\* is attempted again
C30_Witness ==
    /\ iteration = 1
    /\ now = MarketCloseTime
    /\ pc = "send_daily_update"
    /\ stored = <<Row("analysis", "market")>>
    /\ last_updates = [market_data |-> now - SleepSeconds,
                       economic_data |-> now - SleepSeconds,
                       fed_speeches |-> now - SleepSeconds]
    /\ \A name \in DOMAIN DataType : ~outcomes[name].attempted

====
